---- MODULE Spec2Model ----
(***************************************************************************)
(* A model of the c4_rust compiler: the symbol table (symbol.rs), the      *)
(* code generator (parser.rs) and the virtual machine (vm.rs).             *)
(*                                                                         *)
(* Machine words are i64 and indices are usize in the source.  TLC's       *)
(* integers are 32 bits wide, so usize arithmetic is modelled modulo       *)
(* UsizeMod = 2^30 instead of 2^64: a negative word cast with `as usize`   *)
(* still lands far above every vector length, and `sp - 1` at sp = 0       *)
(* still wraps to the largest index.  The words the model computes stay    *)
(* far below 2^30 in absolute value.                                       *)
(***************************************************************************)
EXTENDS Integers, Sequences, FiniteSets, TLC

VARIABLES
    \* VirtualMachine (vm.rs:10-25)
    pc, sp, bp, ax, code, stack, data, cycle,
    \* the call of run: its entry_point argument and how it ended
    entry_point, status, retval,
    \* how the crate was built: overflow checks on (debug) or off (release)
    build,
    \* SymbolTable (symbol.rs:63-70) and the calls its user has made so far
    symbols, name_map, scope_level, calls,
    \* a source text and the Parser instances (parser.rs:16-40) compiling it,
    \* each with how far its user has got: new, init or parse
    source, parsers, stage,
    \* a Lexer (lexer.rs:16-39) with the results its next_token has returned
    lexer

vmVars == <<pc, sp, bp, ax, code, stack, data, cycle, entry_point, status, retval, build>>
symVars == <<symbols, name_map, scope_level, calls>>
parVars == <<source, parsers, stage>>
lexVars == <<lexer>>
vars == <<pc, sp, bp, ax, code, stack, data, cycle, entry_point, status, retval, build,
          symbols, name_map, scope_level, calls, source, parsers, stage, lexer>>

----------------------------------------------------------------------------
(* Bounds of the model *)

\* run's loop is followed for at most this many instructions
MaxCycle == 48
\* the largest stack_size given to VirtualMachine::new
MaxStack == 32
\* the largest args.len() given to run
MaxArgc == 1
\* the most arguments a hand-written call sequence pushes
MaxCallArgs == 3
\* the most local slots a hand-written callee reserves with ENT
MaxEnt == 2
\* the most parameters of a compiled function
MaxParams == 3

----------------------------------------------------------------------------
(* Opcodes, types.rs:99-144, in the order of the enum *)

LEA == 0
IMM == 1
JMP == 2
JSR == 3
BZ == 4
BNZ == 5
ENT == 6
ADJ == 7
LEV == 8
LI == 9
LC == 10
SI == 11
SC == 12
PSH == 13
OR == 14
XOR == 15
AND == 16
EQ == 17
NE == 18
LT == 19
GT == 20
LE == 21
GE == 22
SHL == 23
SHR == 24
ADD == 25
SUB == 26
MUL == 27
DIV == 28
MOD == 29
NEG == 30
OPEN == 31
READ == 32
CLOS == 33
PRTF == 34
MALC == 35
FREE == 36
MSET == 37
MCMP == 38
EXIT == 39

BinaryOps == {OR, XOR, AND, EQ, NE, LT, GT, LE, GE, SHL, SHR, ADD, SUB, MUL, DIV, MOD}

----------------------------------------------------------------------------
(* usize and i64 arithmetic *)

UsizeMod == 2^30

\* the largest and the smallest i64 of the model
I64Max == 2^30 - 1
I64Min == -I64Max - 1

\* the i64 that a result v becomes with the overflow check off, for a result
\* less than one range away from i64
WrapI64(v) ==
    IF v > I64Max THEN (v - I64Max) + (I64Min - 1)
    ELSE IF v < I64Min THEN (v - I64Min) + (I64Max + 1)
    ELSE v

\* `v as usize` of an i64
AsUsize(v) == v % UsizeMod

\* a - b on usize with the overflow check off
WrapSub(a, b) == (a - b) % UsizeMod

\* a + b on usize with the overflow check off
WrapAdd(a, b) == (a + b) % UsizeMod

Abs(a) == IF a < 0 THEN -a ELSE a

\* i64 `/` truncates toward zero
TruncDiv(a, b) ==
    LET q == Abs(a) \div Abs(b) IN IF (a < 0) = (b < 0) THEN q ELSE -q

\* i64 `%` takes the sign of the dividend
TruncRem(a, b) == a - b * TruncDiv(a, b)

RECURSIVE Bitwise(_, _, _)
\* the two's complement bitwise operation op of a and b
Bitwise(op, a, b) ==
    LET bit(x, y) == CASE op = OR -> IF x + y > 0 THEN 1 ELSE 0
                       [] op = AND -> x * y
                       [] OTHER -> (x + y) % 2
    IN IF a \in {0, -1} /\ b \in {0, -1}
       THEN -bit(-a, -b)
       ELSE 2 * Bitwise(op, a \div 2, b \div 2) + bit(a % 2, b % 2)

Bool(b) == IF b THEN 1 ELSE 0

----------------------------------------------------------------------------
(* Types, types.rs:172-176: a pointer is PTR plus its extra levels of indirection *)

CHAR == 0
INT == 1
PTR == 2

----------------------------------------------------------------------------
(* The symbol table, symbol.rs.  A table is [symbols, name_map, scope_level];  *)
(* name_map holds 0-based indices into symbols, as the HashMap does.           *)

\* Option::None, for a lookup that finds nothing
None == "None"

\* the Option of a shadow field: None, and Some(v)
Unset == <<>>
Some(v) == <<v>>

\* Symbol::new
NewSymbol(name, class, typ, value) ==
    [name |-> name, class |-> class, typ |-> typ, value |-> value,
     h_class |-> Unset, h_type |-> Unset, h_value |-> Unset]

\* SymbolTable::new
NewTable == [symbols |-> <<>>, name_map |-> [n \in {} |-> 0], scope_level |-> 0]

\* HashMap::insert
MapInsert(map, key, v) ==
    [k \in DOMAIN map \cup {key} |-> IF k = key THEN v ELSE map[k]]

\* SymbolTable::add
SymAdd(t, name, class, typ, value) ==
    [t EXCEPT !.name_map = MapInsert(t.name_map, name, Len(t.symbols)),
              !.symbols = Append(t.symbols, NewSymbol(name, class, typ, value))]

\* SymbolTable::get
SymGet(t, name) ==
    IF name \in DOMAIN t.name_map THEN t.symbols[t.name_map[name] + 1] ELSE None

\* SymbolTable::exists
SymExists(t, name) == name \in DOMAIN t.name_map

\* SymbolTable::enter_scope
SymEnterScope(t) == [t EXCEPT !.scope_level = t.scope_level + 1]

\* SymbolTable::exit_scope
SymExitScope(t) ==
    IF t.scope_level > 0 THEN [t EXCEPT !.scope_level = t.scope_level - 1] ELSE t

----------------------------------------------------------------------------
(* The parser and code generator, parser.rs.  A parser is the record         *)
(* [toks, tok, expr_type, locals_offset, code, data, symbols, scope_mark,    *)
(* err]: toks is what the lexer has still to deliver, tok the current token  *)
(* with its value and name, err the message of the error that ended the      *)
(* parse ("" while there is none).  Every step leaves a failed parser as it  *)
(* is, as the ? operator does.                                               *)

\* Vec::resize(n, 0) for n >= len
Resize(d, n) == [i \in 1..n |-> IF i <= Len(d) THEN d[i] ELSE 0]

\* TokenType::precedence, types.rs:67-85
Precedence(tt) ==
    CASE tt = "Assign" -> 2
      [] tt = "Cond" -> 4
      [] tt = "Lor" -> 6
      [] tt = "Lan" -> 8
      [] tt = "Or" -> 10
      [] tt = "Xor" -> 12
      [] tt = "And" -> 14
      [] tt \in {"Eq", "Ne"} -> 16
      [] tt \in {"Lt", "Gt", "Le", "Ge"} -> 18
      [] tt \in {"Shl", "Shr"} -> 20
      [] tt \in {"Add", "Sub"} -> 22
      [] tt \in {"Mul", "Div", "Mod"} -> 24
      [] tt \in {"Inc", "Dec"} -> 26
      [] tt = "Brak" -> 28
      [] OTHER -> 0

\* Type::to_ptr for char, int and a pointer to either
ToPtr(t) ==
    CASE t = CHAR -> PTR
      [] t = INT -> PTR
      [] t = PTR -> PTR + 1

\* Type::is_ptr
IsPtr(t) == t >= PTR

\* Type::size
TypeSize(t) == IF t = CHAR THEN 1 ELSE 8

\* a token with its value and name
Token(type, value, name) == [type |-> type, value |-> value, name |-> name]
T(type) == Token(type, 0, "")
NumTok(v) == Token("Num", v, "")
IdTok(name) == Token("Id", 0, name)

\* Parser::new
NewParser(toks) ==
    [toks |-> toks, tok |-> T("Eof"), expr_type |-> INT, locals_offset |-> 0,
     code |-> <<>>, data |-> <<>>, symbols |-> NewTable, scope_mark |-> 0, err |-> ""]

Ok(P) == P.err = ""

\* return Err(CompilerError::ParserError(msg))
Fail(P, msg) == IF Ok(P) THEN [P EXCEPT !.err = msg] ELSE P

\* Parser::next_token: the lexer's next token, Eof at the end of the source
NextToken(P) ==
    IF ~Ok(P) THEN P
    ELSE IF P.toks = <<>> THEN [P EXCEPT !.tok = T("Eof")]
    ELSE [P EXCEPT !.tok = Head(P.toks), !.toks = Tail(P.toks)]

\* Parser::emit
Emit(P, w) == IF Ok(P) THEN [P EXCEPT !.code = Append(P.code, w)] ELSE P

\* a patch that leaves the placeholder in place
PatchHere_Skipped(P, at) == P

\* self.code[at] = self.code.len()
PatchHere(P, at) == IF Ok(P) THEN [P EXCEPT !.code[at + 1] = Len(P.code)] ELSE P

\* self.expr_type = t
SetType(P, t) == IF Ok(P) THEN [P EXCEPT !.expr_type = t] ELSE P

\* self.symbols.add(name, class, typ, value)
AddSymbol(P, name, class, typ, value) ==
    IF Ok(P) THEN [P EXCEPT !.symbols = SymAdd(P.symbols, name, class, typ, value)] ELSE P

\* the next token if the current one is tt
SkipIf(P, tt) == IF Ok(P) /\ P.tok.type = tt THEN NextToken(P) ELSE P

\* the error msg unless the current token is tt
Expect(P, tt, msg) == IF Ok(P) /\ P.tok.type # tt THEN Fail(P, msg) ELSE P

\* the built-in functions of init_symbols, in the order they are added
LibFuncs ==
    << <<"open", "Sys", OPEN>>, <<"read", "Sys", READ>>, <<"close", "Sys", CLOS>>,
       <<"printf", "Sys", PRTF>>, <<"malloc", "Sys", MALC>>, <<"free", "Sys", FREE>>,
       <<"memset", "Sys", MSET>>, <<"memcmp", "Sys", MCMP>>, <<"exit", "Sys", EXIT>>,
       <<"void", "Num", 0>> >>

RECURSIVE InitSymbolsFrom(_, _)
InitSymbolsFrom(P, i) ==
    IF i > Len(LibFuncs) THEN P
    ELSE InitSymbolsFrom(AddSymbol(P, LibFuncs[i][1], LibFuncs[i][2], INT, LibFuncs[i][3]),
                         i + 1)

\* Parser::init_symbols
InitSymbols(P) == InitSymbolsFrom(P, 1)

\* Parser::init
ParserInit(P) == NextToken(InitSymbols(P))

\* the lvalue test of =: the last word of the code is LI or LC, which is removed
DropLoad(P, msg) ==
    IF ~Ok(P) \/ P.code = <<>> THEN P
    ELSE IF P.code[Len(P.code)] \in {LI, LC}
         THEN [P EXCEPT !.code = SubSeq(P.code, 1, Len(P.code) - 1)]
         ELSE Fail(P, msg)

\* the operators expression handles by PSH, the right operand, an opcode and type int:
\* the level of the right operand and the opcode
PlainBinary ==
    [Mul |-> <<"Inc", MUL>>, Div |-> <<"Inc", DIV>>, Mod |-> <<"Inc", MOD>>,
     Eq |-> <<"Lt", EQ>>, Ne |-> <<"Lt", NE>>,
     Lt |-> <<"Shl", LT>>, Gt |-> <<"Shl", GT>>, Le |-> <<"Shl", LE>>, Ge |-> <<"Shl", GE>>,
     Shl |-> <<"Add", SHL>>, Shr |-> <<"Add", SHR>>,
     And |-> <<"Eq", AND>>, Or |-> <<"Xor", OR>>, Xor |-> <<"And", XOR>>]

\* PSH; IMM size_of(int); MUL
EmitScale(P) == Emit(Emit(Emit(P, PSH), IMM), TypeSize(INT))

RECURSIVE Expression(_, _), ExpressionLoop(_, _), PrimaryExpr(_), CallArgs(_, _)

\* expression, the arm of =
AssignOp(P) ==
    LET expr_type == P.expr_type
        P1 == Emit(DropLoad(NextToken(P), "not an lvalue"), PSH)
        P2 == Expression(P1, "Assign")
    IN  SetType(Emit(P2, IF expr_type = CHAR THEN SC ELSE SI), expr_type)

\* the arm of + with its right operand parsed at the level of + itself
AddOp_RightAssociative(P) ==
    LET expr_type == P.expr_type
        P1 == Expression(Emit(NextToken(P), PSH), "Add")
        P2 == IF IsPtr(expr_type) THEN Emit(EmitScale(P1), MUL) ELSE P1
    IN  SetType(Emit(P2, ADD), expr_type)

\* expression, the arm of +
AddOp(P) ==
    LET expr_type == P.expr_type
        P1 == Expression(Emit(NextToken(P), PSH), "Mul")
        P2 == IF IsPtr(expr_type) THEN Emit(EmitScale(P1), MUL) ELSE P1
    IN  SetType(Emit(P2, ADD), expr_type)

\* expression, the arm of -
SubOp(P) ==
    LET expr_type == P.expr_type
        P1 == Expression(Emit(NextToken(P), PSH), "Mul")
    IN  IF IsPtr(expr_type) /\ IsPtr(P1.expr_type)
        THEN SetType(Emit(EmitScale(Emit(P1, SUB)), DIV), INT)
        ELSE IF IsPtr(expr_type)
        THEN SetType(Emit(Emit(EmitScale(P1), MUL), SUB), expr_type)
        ELSE SetType(Emit(P1, SUB), INT)

\* expression, the arms of * / % == != < > <= >= << >> & | ^
PlainOp(P) ==
    LET how == PlainBinary[P.tok.type]
        P1 == Expression(Emit(NextToken(P), PSH), how[1])
    IN  SetType(Emit(P1, how[2]), INT)

\* the arms of && and || with the branch patched before the right operand
LogicalOp_PatchedBeforeOperand(P, branch, level) ==
    LET P1 == Emit(NextToken(P), branch)
        skip == Len(P1.code)
    IN  SetType(Expression(PatchHere(Emit(P1, 0), skip), level), INT)

\* expression, the arms of && (BZ) and || (BNZ)
LogicalOp(P, branch, level) ==
    LET P1 == Emit(NextToken(P), branch)
        skip == Len(P1.code)
        P2 == Expression(Emit(P1, 0), level)
    IN  SetType(PatchHere(P2, skip), INT)

\* expression, the arm of ?:
CondOp(P) ==
    LET P1 == Emit(NextToken(P), BZ)
        false_branch == Len(P1.code)
        P2 == Expression(Emit(P1, 0), "Assign")
        P3 == IF Ok(P2) /\ P2.tok.type # "Colon"
              THEN Fail(P2, "expected ':' in conditional expression")
              ELSE Emit(NextToken(P2), JMP)
        end_jump == Len(P3.code)
        P4 == Expression(PatchHere(Emit(P3, 0), false_branch), "Cond")
    IN  PatchHere(P4, end_jump)

\* Parser::expression
Expression(P, level) == ExpressionLoop(PrimaryExpr(P), level)

\* expression's loop over the operators of precedence level and above
ExpressionLoop(P, level) ==
    IF ~Ok(P) \/ Precedence(P.tok.type) < Precedence(level) THEN P
    ELSE LET tt == P.tok.type IN
         CASE tt = "Assign" -> ExpressionLoop(AssignOp(P), level)
           [] tt = "Add" -> ExpressionLoop(AddOp(P), level)
           [] tt = "Sub" -> ExpressionLoop(SubOp(P), level)
           [] tt \in DOMAIN PlainBinary -> ExpressionLoop(PlainOp(P), level)
           [] tt = "Lan" -> ExpressionLoop(LogicalOp(P, BZ, "Or"), level)
           [] tt = "Lor" -> ExpressionLoop(LogicalOp(P, BNZ, "Lan"), level)
           [] tt = "Cond" -> ExpressionLoop(CondOp(P), level)
           [] tt = "Brak" -> P
           [] OTHER -> Fail(P, "unexpected operator")

\* the arguments of a call: each is an expression followed by PSH
CallArgs(P, arg_count) ==
    IF ~Ok(P) \/ P.tok.type = "RParen" THEN [p |-> P, n |-> arg_count]
    ELSE CallArgs(SkipIf(Emit(Expression(P, "Assign"), PSH), "Comma"), arg_count + 1)

\* primary_expr, the arm of a numeric literal
NumExpr(P) == NextToken(SetType(Emit(Emit(P, IMM), P.tok.value), INT))

\* String::as_bytes of the contents of the string literals in the sources
AsBytes(string) == [hi |-> <<104, 105>>][string]

\* Vec::push of each byte
Extend(d, bytes) == d \o bytes

\* primary_expr, the arm of a Str token: the bytes and a NUL go to the data
\* section, IMM loads the offset they start at
StrExpr(P) ==
    LET start_pos == Len(P.data)
        P1 == [P EXCEPT !.data = Append(Extend(P.data, AsBytes(P.tok.name)), 0)]
    IN  NextToken(SetType(Emit(Emit(P1, IMM), start_pos), PTR))

\* primary_expr, the arm of an identifier: a call, a constant or a variable
IdExpr(P) ==
    LET id_name == P.tok.name
        P1 == NextToken(P)
        symbol == SymGet(P1.symbols, id_name)
    IN  IF ~SymExists(P1.symbols, id_name) THEN Fail(P1, "undefined symbol")
        ELSE IF P1.tok.type = "LParen"
        THEN LET args == CallArgs(NextToken(P1), 0)
                 P2 == NextToken(args.p)
                 P3 == CASE symbol.class = "Sys" -> Emit(P2, symbol.value)
                         [] symbol.class = "Fun" -> Emit(Emit(P2, JSR), symbol.value)
                         [] OTHER -> Fail(P2, "is not a function")
                 P4 == IF args.n > 0 THEN Emit(Emit(P3, ADJ), args.n) ELSE P3
             IN  SetType(P4, symbol.typ)
        ELSE IF symbol.class = "Num"
        THEN SetType(Emit(Emit(P1, IMM), symbol.value), INT)
        ELSE LET P2 == CASE symbol.class = "Loc" -> Emit(Emit(P1, LEA), symbol.value)
                         [] symbol.class = "Glo" -> Emit(Emit(P1, IMM), symbol.value)
                         [] OTHER -> Fail(P1, "invalid variable class")
             IN  SetType(Emit(P2, IF symbol.typ = CHAR THEN LC ELSE LI), symbol.typ)

RECURSIVE Stars(_, _)
\* while self.token == Mul: the type with one more level per *
Stars(P, typ) ==
    IF Ok(P) /\ P.tok.type = "Mul" THEN Stars(NextToken(P), ToPtr(typ))
    ELSE [p |-> P, typ |-> typ]

\* primary_expr, the arm of (: a cast or a parenthesized expression
ParenExpr(P) ==
    LET P1 == NextToken(P) IN
    IF P1.tok.type \in {"Int", "Char"}
    THEN LET st == Stars(NextToken(P1), IF P1.tok.type = "Int" THEN INT ELSE CHAR) IN
         IF Ok(st.p) /\ st.p.tok.type # "RParen" THEN Fail(st.p, "expected ')' in cast")
         ELSE SetType(Expression(NextToken(st.p), "Inc"), st.typ)
    ELSE LET P2 == Expression(P1, "Assign") IN
         IF Ok(P2) /\ P2.tok.type # "RParen" THEN Fail(P2, "expected ')'")
         ELSE NextToken(P2)

\* the load of a value of type t, and the store
Load(t) == IF t = CHAR THEN LC ELSE LI
Store(t) == IF t = CHAR THEN SC ELSE SI

\* the type a pointer of type t points to: int for PTR, one level less above it
DerefType(t) == IF t = PTR THEN INT ELSE t - 1

\* primary_expr, the arm of unary *
DerefExpr(P) ==
    LET P1 == Expression(NextToken(P), "Inc") IN
    IF Ok(P1) /\ ~IsPtr(P1.expr_type) THEN Fail(P1, "invalid dereference")
    ELSE SetType(Emit(P1, Load(DerefType(P1.expr_type))), DerefType(P1.expr_type))

\* primary_expr, the arm of unary &
AddrExpr(P) ==
    LET P1 == DropLoad(Expression(NextToken(P), "Inc"), "invalid address-of operand")
    IN  SetType(P1, ToPtr(P1.expr_type))

\* primary_expr, the arm of unary -
NegExpr(P) ==
    LET P1 == NextToken(P) IN
    IF Ok(P1) /\ P1.tok.type = "Num"
    THEN NextToken(SetType(Emit(Emit(P1, IMM), 0 - P1.tok.value), INT))
    ELSE SetType(Emit(Expression(Emit(Emit(Emit(P1, IMM), -1), PSH), "Inc"), MUL), INT)

\* primary_expr, the arm of TokenType::Not: PSH; IMM 0; EQ
NotExpr(P) ==
    SetType(Emit(Emit(Emit(Emit(Expression(NextToken(P), "Inc"), PSH), IMM), 0), EQ), INT)

\* primary_expr, the arm of TokenType::BitNot: PSH; IMM -1; XOR
BitNotExpr(P) ==
    SetType(Emit(Emit(Emit(Emit(Expression(NextToken(P), "Inc"), PSH), IMM), -1), XOR), INT)

\* the lvalue test of ++ and --: the load at the end of the code becomes PSH
\* followed by the same load
DupLoad(P, msg) ==
    IF ~Ok(P) \/ P.code = <<>> THEN P
    ELSE IF P.code[Len(P.code)] \in {LI, LC}
         THEN Emit([P EXCEPT !.code[Len(P.code)] = PSH], P.code[Len(P.code)])
         ELSE Fail(P, msg)

\* PSH; IMM 1 (the size of a word for a pointer); op
EmitStep(P, op) ==
    Emit(Emit(Emit(Emit(P, PSH), IMM), IF IsPtr(P.expr_type) THEN TypeSize(INT) ELSE 1), op)

\* the store that ends ++ and --
EmitStore(P) == Emit(P, Store(P.expr_type))

\* primary_expr, the arms of prefix ++ (ADD) and -- (SUB)
PreIncDec(P, op, msg) ==
    EmitStore(EmitStep(DupLoad(Expression(NextToken(P), "Inc"), msg), op))

\* primary_expr, the arm of sizeof
SizeofExpr(P) ==
    LET P1 == NextToken(Expect(NextToken(P), "LParen", "expected '(' after sizeof"))
        st == Stars(IF Ok(P1) /\ P1.tok.type \in {"Int", "Char"} THEN NextToken(P1) ELSE P1,
                    IF P1.tok.type = "Char" THEN CHAR ELSE INT)
        P2 == NextToken(Expect(st.p, "RParen", "expected ')' after type in sizeof"))
    IN  SetType(Emit(Emit(P2, IMM), TypeSize(st.typ)), INT)

\* postfix ++ and -- without the reverse adjustment of the result
PostIncDec_NoReverse(P, op, reverse) ==
    NextToken(EmitStore(EmitStep(DupLoad(P, "invalid lvalue in post-increment"), op)))

\* primary_expr, postfix ++ (ADD then SUB) and -- (SUB then ADD)
PostIncDec(P, op, reverse) ==
    NextToken(EmitStep(EmitStore(EmitStep(
        DupLoad(P, "invalid lvalue in post-increment"), op)), reverse))

\* primary_expr, postfix [ ]: P is at [, P2 is past ] with the type of the index.
\* The element type is taken from the type of the index; for a char index the
\* code computes 0u8 - 1, on which a debug build panics.
IndexLoad(P2) ==
    IF Ok(P2) /\ P2.expr_type = CHAR THEN Fail(P2, "panic")
    ELSE SetType(Emit(Emit(IF IsPtr(P2.expr_type) THEN Emit(EmitScale(P2), MUL) ELSE P2, ADD),
                      Load(DerefType(P2.expr_type))),
                 DerefType(P2.expr_type))

IndexExpr(P) ==
    IF ~IsPtr(P.expr_type) THEN Fail(P, "pointer type expected for indexing")
    ELSE IndexLoad(NextToken(Expect(Expression(Emit(NextToken(P), PSH), "Assign"),
                                    "RBracket", "expected ']'")))

RECURSIVE PostOps(_)
\* primary_expr, the loop over the postfix operators
PostOps(P) ==
    IF ~Ok(P) THEN P
    ELSE CASE P.tok.type = "Inc" -> PostOps(PostIncDec(P, ADD, SUB))
           [] P.tok.type = "Dec" -> PostOps(PostIncDec(P, SUB, ADD))
           [] P.tok.type = "Brak" -> PostOps(IndexExpr(P))
           [] OTHER -> P

\* primary_expr, the match on the first token
PrimaryArm(P) ==
    CASE P.tok.type = "Num" -> NumExpr(P)
      [] P.tok.type = "Str" -> StrExpr(P)
      [] P.tok.type = "Id" -> IdExpr(P)
      [] P.tok.type = "LParen" -> ParenExpr(P)
      [] P.tok.type = "Mul" -> DerefExpr(P)
      [] P.tok.type = "And" -> AddrExpr(P)
      [] P.tok.type = "Add" -> Expression(NextToken(P), "Inc")
      [] P.tok.type = "Sub" -> NegExpr(P)
      [] P.tok.type = "Not" -> NotExpr(P)
      [] P.tok.type = "BitNot" -> BitNotExpr(P)
      [] P.tok.type = "Inc" -> PreIncDec(P, ADD, "invalid lvalue in pre-increment")
      [] P.tok.type = "Dec" -> PreIncDec(P, SUB, "invalid lvalue in pre-decrement")
      [] P.tok.type = "Sizeof" -> SizeofExpr(P)
      [] OTHER -> Fail(P, "unexpected token in expression")

\* Parser::primary_expr
PrimaryExpr(P) == IF ~Ok(P) THEN P ELSE PostOps(PrimaryArm(P))

RECURSIVE Statement(_), Statements(_)

\* while self.token != RBrace { self.statement()? }
Statements(P) ==
    IF ~Ok(P) \/ P.tok.type = "RBrace" THEN P ELSE Statements(Statement(P))

\* the condition in parentheses of if and while
Condition(P, what) ==
    LET P1 == NextToken(Expect(P, "LParen", "expected '(' after " \o what))
        P2 == Expression(P1, "Assign")
    IN  NextToken(Expect(P2, "RParen", "expected ')' after condition"))

\* statement, the else-clause of an if: P has emitted the JMP
ElseClause(P, else_jump) ==
    PatchHere(Statement(PatchHere(Emit(P, 0), else_jump)), Len(P.code))

\* statement, what follows the then-clause of an if
AfterThen(P, else_jump) ==
    IF Ok(P) /\ P.tok.type = "Else" THEN ElseClause(Emit(NextToken(P), JMP), else_jump)
    ELSE PatchHere(P, else_jump)

\* statement, the then-clause of an if: P has emitted the BZ
ThenClause(P) == AfterThen(Statement(Emit(P, 0)), Len(P.code))

\* statement, the arm of if
IfStatement(P) == ThenClause(Emit(Condition(NextToken(P), "if"), BZ))

\* the body of a while whose JMP goes back to the body, past the condition
WhileBody_BackToBody(P, loop_start) ==
    PatchHere(Emit(Emit(Statement(Emit(P, 0)), JMP), Len(P.code) + 1), Len(P.code))

\* statement, the body of a while: P has emitted the BZ
WhileBody(P, loop_start) ==
    PatchHere(Emit(Emit(Statement(Emit(P, 0)), JMP), loop_start), Len(P.code))

\* statement, the arm of while
WhileStatement(P) == WhileBody(Emit(Condition(NextToken(P), "while"), BZ), Len(P.code))

\* statement, the arm of return
ReturnStatement(P) ==
    LET P1 == NextToken(P)
        P2 == IF P1.tok.type # "Semicolon" THEN Expression(P1, "Assign") ELSE P1
    IN  Emit(NextToken(Expect(P2, "Semicolon", "expected ';' after return statement")), LEV)

\* Parser::statement
Statement(P) ==
    IF ~Ok(P) THEN P
    ELSE CASE P.tok.type = "If" -> IfStatement(P)
           [] P.tok.type = "While" -> WhileStatement(P)
           [] P.tok.type = "Return" -> ReturnStatement(P)
           [] P.tok.type = "LBrace" -> NextToken(Statements(NextToken(P)))
           [] P.tok.type = "Semicolon" -> NextToken(P)
           [] OTHER -> NextToken(Expect(Expression(P, "Assign"), "Semicolon",
                                        "expected ';' after expression"))

\* SymbolTable::exists_in_current_scope: name was added since the scope was entered
ExistsInCurrentScope(P, name) ==
    \E i \in (P.scope_mark + 1)..Len(P.symbols.symbols) : P.symbols.symbols[i].name = name

\* self.symbols.enter_scope(), which marks the length of the table
ParserEnterScope(P) ==
    [P EXCEPT !.symbols = SymEnterScope(P.symbols), !.scope_mark = Len(P.symbols.symbols)]

\* self.symbols.exit_scope()
ParserExitScope(P) == IF Ok(P) THEN [P EXCEPT !.symbols = SymExitScope(P.symbols)] ELSE P

RECURSIVE Params(_, _), LocalDeclarators(_, _), Locals(_)

\* parse_function, the parameter list: parameter number param_count gets that value
Params(P, param_count) ==
    IF ~Ok(P) \/ P.tok.type = "RParen" THEN [p |-> P, n |-> param_count]
    ELSE IF P.tok.type \notin {"Int", "Char"}
    THEN [p |-> Fail(P, "expected parameter type"), n |-> param_count]
    ELSE LET st == Stars(NextToken(P), IF P.tok.type = "Int" THEN INT ELSE CHAR)
             P1 == Expect(st.p, "Id", "expected parameter name")
             param_name == P1.tok.name
             P2 == NextToken(P1)
             P3 == IF Ok(P2) /\ ExistsInCurrentScope(P2, param_name)
                   THEN Fail(P2, "duplicate parameter")
                   ELSE AddSymbol(P2, param_name, "Loc", st.typ, param_count)
         IN  Params(SkipIf(P3, "Comma"), param_count + 1)

\* parse_function, the declarators of one local declaration
LocalDeclarators(P, local_type) ==
    IF ~Ok(P) \/ P.tok.type = "Semicolon" THEN P
    ELSE LET st == Stars(P, local_type)
             P1 == Expect(st.p, "Id", "expected variable name")
             var_name == P1.tok.name
             P2 == NextToken(P1)
             P3 == IF Ok(P2) /\ ExistsInCurrentScope(P2, var_name)
                   THEN Fail(P2, "duplicate local variable")
                   ELSE AddSymbol([P2 EXCEPT !.locals_offset = P2.locals_offset + 1],
                                  var_name, "Loc", st.typ, P2.locals_offset)
         IN  LocalDeclarators(SkipIf(P3, "Comma"), local_type)

\* parse_function, the local declarations at the head of the body
Locals(P) ==
    IF ~Ok(P) \/ P.tok.type \notin {"Int", "Char"} THEN P
    ELSE Locals(NextToken(LocalDeclarators(NextToken(P),
                                           IF P.tok.type = "Int" THEN INT ELSE CHAR)))

\* parse_function, the prologue: ENT and the number of locals
Prologue(P, param_count) == Emit(Emit(P, ENT), P.locals_offset - param_count)

\* parse_function, from the local declarations to the closing brace
FunctionBody(P, param_count) ==
    NextToken(ParserExitScope(Emit(Statements(Prologue(
        Locals(IF Ok(P) THEN [P EXCEPT !.locals_offset = param_count] ELSE P),
        param_count)), LEV)))

\* parse_function, from the ) of the parameter list
AfterParams(params) ==
    FunctionBody(NextToken(Expect(NextToken(params.p), "LBrace",
                                  "expected '{' before function body")), params.n)

\* Parser::parse_function
ParseFunction(P, name, ret_type) ==
    AfterParams(Params(NextToken(ParserEnterScope(
        AddSymbol(P, name, "Fun", ret_type, Len(P.code)))), 0))

\* parse_declarations, a global variable: a symbol at the end of the data, which grows
GlobalVar(P, id_name, typ) ==
    LET P1 == AddSymbol(P, id_name, "Glo", typ, Len(P.data))
    IN  [P1 EXCEPT !.data = Resize(P.data, Len(P.data) + TypeSize(typ))]

\* parse_declarations, one declarator after its name: a function or a global variable
Declarator(P, id_name, typ) ==
    IF ~Ok(P) THEN P
    ELSE IF SymExists(P.symbols, id_name) THEN Fail(P, "duplicate definition")
    ELSE IF P.tok.type = "LParen" THEN ParseFunction(P, id_name, typ)
    ELSE GlobalVar(P, id_name, typ)

\* parse_declarations, one declarator at its name
DeclaratorAt(P, typ) == Declarator(NextToken(P), P.tok.name, typ)

\* parse_declarations, one declarator after its stars
DeclaratorOf(st) == DeclaratorAt(Expect(st.p, "Id", "expected identifier"), st.typ)

RECURSIVE EnumBody_KeepCounter(_, _)
\* enumerators whose counter is not reset by an explicit value
EnumBody_KeepCounter(P, enum_val) ==
    IF ~Ok(P) \/ P.tok.type = "RBrace" THEN P
    ELSE IF P.tok.type # "Id" THEN Fail(P, "expected identifier in enum")
    ELSE LET id_name == P.tok.name
             P1 == NextToken(P)
             explicit == P1.tok.type = "Assign"
             P2 == IF explicit
                   THEN Expect(NextToken(P1), "Num", "expected number in enum initializer")
                   ELSE P1
             val == IF explicit THEN P2.tok.value ELSE enum_val
             P3 == IF explicit THEN NextToken(P2) ELSE P2
         IN  EnumBody_KeepCounter(SkipIf(AddSymbol(P3, id_name, "Num", INT, val), "Comma"),
                                  enum_val + 1)

RECURSIVE EnumBody(_, _), Declarators(_, _), ParseDeclarations(_)

\* parse_declarations, the enumerators up to the closing brace
EnumBody(P, enum_val) ==
    IF ~Ok(P) \/ P.tok.type = "RBrace" THEN P
    ELSE IF P.tok.type # "Id" THEN Fail(P, "expected identifier in enum")
    ELSE LET id_name == P.tok.name
             P1 == NextToken(P)
             explicit == P1.tok.type = "Assign"
             P2 == IF explicit
                   THEN Expect(NextToken(P1), "Num", "expected number in enum initializer")
                   ELSE P1
             val == IF explicit THEN P2.tok.value ELSE enum_val
             P3 == IF explicit THEN NextToken(P2) ELSE P2
         IN  EnumBody(SkipIf(AddSymbol(P3, id_name, "Num", INT, val), "Comma"), val + 1)

\* parse_declarations, an enum declaration
EnumDecl(P) ==
    LET P1 == Expect(SkipIf(NextToken(P), "Id"), "LBrace", "expected '{' after enum")
    IN  SkipIf(SkipIf(EnumBody(NextToken(P1), 0), "RBrace"), "Semicolon")

\* parse_declarations, the declarators after a base type, up to ; or }
Declarators(P, base_type) ==
    IF ~Ok(P) \/ P.tok.type \in {"Semicolon", "RBrace"} THEN P
    ELSE Declarators(SkipIf(DeclaratorOf(Stars(P, base_type)), "Comma"), base_type)

\* parse_declarations, a declaration of the base type
Declaration(P, base_type) == SkipIf(Declarators(NextToken(P), base_type), "Semicolon")

\* Parser::parse_declarations
ParseDeclarations(P) ==
    IF ~Ok(P) \/ P.tok.type = "Eof" THEN P
    ELSE CASE P.tok.type \in {"Int", "Char"} ->
                ParseDeclarations(Declaration(P, IF P.tok.type = "Int" THEN INT ELSE CHAR))
           [] P.tok.type = "Enum" -> ParseDeclarations(EnumDecl(P))
           [] OTHER -> Fail(P, "expected type specifier")

\* SymbolTable::get_main
GetMain(t) == SymGet(t, "main")

\* a check of main that accepts a symbol of any class
CheckMain_AnyClass(P) ==
    IF ~Ok(P) THEN P
    ELSE IF ~SymExists(P.symbols, "main") THEN Fail(P, "main() not defined")
    ELSE P

\* parse, the check of main after parse_declarations
CheckMain(P) ==
    IF ~Ok(P) THEN P
    ELSE IF ~SymExists(P.symbols, "main") THEN Fail(P, "main() not defined")
    ELSE IF GetMain(P.symbols).class # "Fun" THEN Fail(P, "main is not a function")
    ELSE P

\* Parser::parse
Parse(P) == CheckMain(ParseDeclarations(P))

\* Parser::get_entry_point
GetEntryPoint(P) == GetMain(P.symbols).value

\* Parser::new, init and parse on a source, as compile_and_run and the driver do
Compile(toks) == Parse(ParserInit(NewParser(toks)))

----------------------------------------------------------------------------
(* Sources, as the tokens the lexer delivers for them *)

\* the names of the parameters and of the locals of a generated function
ParamName(i) == <<"p1", "p2", "p3", "p4">>[i]
LocalName(i) == <<"x1", "x2", "x3", "x4">>[i]

RECURSIVE ParamToks(_, _), ArgToks(_, _), LocalToks(_, _)

\* int p<from>, ..., int p<n>
ParamToks(from, n) ==
    IF from > n THEN <<>>
    ELSE <<T("Int"), IdTok(ParamName(from))>>
         \o (IF from < n THEN <<T("Comma")>> ELSE <<>>) \o ParamToks(from + 1, n)

\* the value of the k-th argument of a call
ArgValue(k) == 10 * k

\* ArgValue(from), ..., ArgValue(n)
ArgToks(from, n) ==
    IF from > n THEN <<>>
    ELSE <<NumTok(ArgValue(from))>>
         \o (IF from < n THEN <<T("Comma")>> ELSE <<>>) \o ArgToks(from + 1, n)

\* int x<from>; ...; int x<n>;
LocalToks(from, n) ==
    IF from > n THEN <<>>
    ELSE <<T("Int"), IdTok(LocalName(from)), T("Semicolon")>> \o LocalToks(from + 1, n)

\* int name(params) { body } with or without a ; after the closing brace
FnToks(name, params, body, semi) ==
    <<T("Int"), IdTok(name), T("LParen")>> \o params \o <<T("RParen"), T("LBrace")>>
    \o body \o <<T("RBrace")>> \o (IF semi THEN <<T("Semicolon")>> ELSE <<>>)

\* return e;
ReturnToks(e) == <<T("Return")>> \o e \o <<T("Semicolon")>>

\* name = e;
AssignToks(name, e) == <<IdTok(name), T("Assign")>> \o e \o <<T("Semicolon")>>

\* name(args)
CallToks(name, args) == <<IdTok(name), T("LParen")>> \o args \o <<T("RParen")>>

\* int main() { return v; }
SrcReturn(v, semi) == FnToks("main", <<>>, ReturnToks(<<NumTok(v)>>), semi)

\* int f(int p1, ..., int pn) { int x1; ...; int xm; return pk; }
\* int main() { return f(ArgValue(1), ..., ArgValue(n)); }
SrcParam(n, m, k, semi) ==
    FnToks("f", ParamToks(1, n), LocalToks(1, m) \o ReturnToks(<<IdTok(ParamName(k))>>), semi)
    \o FnToks("main", <<>>, ReturnToks(CallToks("f", ArgToks(1, n))), semi)

\* int add(int a, int b) { return a + b; }  int main() { return add(10, 20); }
SrcAdd(semi) ==
    FnToks("add", <<T("Int"), IdTok("a"), T("Comma"), T("Int"), IdTok("b")>>,
           ReturnToks(<<IdTok("a"), T("Add"), IdTok("b")>>), semi)
    \o FnToks("main", <<>>, ReturnToks(CallToks("add", <<NumTok(10), T("Comma"), NumTok(20)>>)),
              semi)

\* int main() { int x; int y; x = 10; y = 20; return x + y; }
SrcLocals(semi) ==
    FnToks("main", <<>>,
           <<T("Int"), IdTok("x"), T("Semicolon"), T("Int"), IdTok("y"), T("Semicolon")>>
           \o AssignToks("x", <<NumTok(10)>>) \o AssignToks("y", <<NumTok(20)>>)
           \o ReturnToks(<<IdTok("x"), T("Add"), IdTok("y")>>), semi)

\* int f(int a) { a = 5; return a; }  int main() { return f(1); }
SrcAssignParam(semi) ==
    FnToks("f", <<T("Int"), IdTok("a")>>,
           AssignToks("a", <<NumTok(5)>>) \o ReturnToks(<<IdTok("a")>>), semi)
    \o FnToks("main", <<>>, ReturnToks(CallToks("f", <<NumTok(1)>>)), semi)

\* int f() { int x; x = 7; return x; }  int main() { return f(); }
SrcAssignLocal(semi) ==
    FnToks("f", <<>>, <<T("Int"), IdTok("x"), T("Semicolon")>>
                      \o AssignToks("x", <<NumTok(7)>>) \o ReturnToks(<<IdTok("x")>>), semi)
    \o FnToks("main", <<>>, ReturnToks(CallToks("f", <<>>)), semi)

\* the number of arguments the built-in functions are called with, in the order
\* of LibFuncs: printf is given a format and one value
Arity == <<2, 3, 1, 2, 1, 1, 3, 3, 1>>

RECURSIVE Ones(_)
\* 1, ..., 1: n arguments
Ones(n) ==
    IF n = 0 THEN <<>>
    ELSE <<NumTok(1)>> \o (IF n > 1 THEN <<T("Comma")>> ELSE <<>>) \o Ones(n - 1)

\* int g; int main() { return f(1, ..., 1); } for the k-th built-in function f
SrcSyscall(k) ==
    <<T("Int"), IdTok("g"), T("Semicolon")>>
    \o FnToks("main", <<>>, ReturnToks(CallToks(LibFuncs[k][1], Ones(Arity[k]))), TRUE)

\* int g; int main() { g = 7; return g; }
SrcGlobal(semi) ==
    <<T("Int"), IdTok("g"), T("Semicolon")>>
    \o FnToks("main", <<>>, AssignToks("g", <<NumTok(7)>>) \o ReturnToks(<<IdTok("g")>>), semi)

\* the values the counter of a compiled loop starts from
Counts == 0..2

\* int g; int main() { g = n; while (g) g = g - 1; return g; };
SrcWhile(n) ==
    <<T("Int"), IdTok("g"), T("Semicolon")>>
    \o FnToks("main", <<>>,
              AssignToks("g", <<NumTok(n)>>)
              \o <<T("While"), T("LParen"), IdTok("g"), T("RParen")>>
              \o AssignToks("g", <<IdTok("g"), T("Sub"), NumTok(1)>>)
              \o ReturnToks(<<IdTok("g")>>), TRUE)

\* the operand values of a compiled && and ||
Truth == {0, 7}

\* int main() { return a && b; }; and int main() { return a || b; };
SrcLogical(tok, a, b) ==
    FnToks("main", <<>>, ReturnToks(<<NumTok(a), T(tok), NumTok(b)>>), TRUE)

\* g++, g--, ++g and --g: the tokens, the change of g and whether the value
\* of the expression is the old one
Forms ==
    [PostInc |-> [toks |-> <<IdTok("g"), T("Inc")>>, by |-> 1, old |-> TRUE],
     PostDec |-> [toks |-> <<IdTok("g"), T("Dec")>>, by |-> -1, old |-> TRUE],
     PreInc |-> [toks |-> <<T("Inc"), IdTok("g")>>, by |-> 1, old |-> FALSE],
     PreDec |-> [toks |-> <<T("Dec"), IdTok("g")>>, by |-> -1, old |-> FALSE]]

\* int g; int main() { g = v; return g++; }; and the like
SrcIncDec(form, v) ==
    <<T("Int"), IdTok("g"), T("Semicolon")>>
    \o FnToks("main", <<>>,
              AssignToks("g", <<NumTok(v)>>) \o ReturnToks(Forms[form].toks), TRUE)

----------------------------------------------------------------------------
(* The virtual machine, vm.rs *)

CodeAt(i) == code[i + 1]

\* the registers and memory areas a handler of run's match reads and writes
Machine == [pc |-> pc, sp |-> sp, bp |-> bp, ax |-> ax, stack |-> stack,
            data |-> data, status |-> status, retval |-> retval]

\* return Err(CompilerError::VMError {..})
Err(m) == [m EXCEPT !.status = "err"]

\* the thread panics: an overflow check of a debug build, or an index out of bounds
Panic(m) == [m EXCEPT !.status = "panic"]

\* self.stack[i] = v
StackSet(m, i, v) == [m EXCEPT !.stack[i + 1] = v]

\* one of run's start-up pushes: self.sp -= 1; self.stack[self.sp] = v
StartupPush(m, v) ==
    IF m.status = "panic" THEN m
    ELSE IF m.sp = 0 /\ build = "debug" THEN Panic(m)
    ELSE LET s == WrapSub(m.sp, 1) IN
         IF s >= Len(m.stack) THEN Panic([m EXCEPT !.sp = s])
         ELSE StackSet([m EXCEPT !.sp = s], s, v)

\* run, up to its loop: the EXIT sentinel, argc, argv and the sentinel's index
Startup(m, entry, argc) ==
    LET m1 == StartupPush([m EXCEPT !.pc = entry, !.status = "running"], EXIT)
        t  == m1.sp
        m2 == StartupPush(m1, argc)
        m3 == StartupPush(m2, 0)
    IN  StartupPush(m3, t)

\* LEA that addresses the slot below the one its operand names
ExecLEA_SlotBelow(m) ==
    IF m.pc + 1 >= Len(code) THEN Err(m)
    ELSE [m EXCEPT !.ax = m.bp + CodeAt(m.pc + 1) - 1, !.pc = m.pc + 2]

ExecLEA(m) ==
    IF m.pc + 1 >= Len(code) THEN Err(m)
    ELSE [m EXCEPT !.ax = m.bp + CodeAt(m.pc + 1), !.pc = m.pc + 2]

ExecIMM(m) ==
    IF m.pc + 1 >= Len(code) THEN Err(m)
    ELSE [m EXCEPT !.ax = CodeAt(m.pc + 1), !.pc = m.pc + 2]

ExecJMP(m) ==
    IF m.pc + 1 >= Len(code) THEN Err(m)
    ELSE LET target == AsUsize(CodeAt(m.pc + 1)) IN
         IF target >= Len(code) THEN Err(m) ELSE [m EXCEPT !.pc = target]

ExecJSR(m) ==
    IF m.pc + 1 >= Len(code) THEN Err(m)
    ELSE IF m.sp = 0 /\ build = "debug" THEN Panic(m)
    ELSE LET s == WrapSub(m.sp, 1) IN
         IF s >= Len(m.stack) THEN Err([m EXCEPT !.sp = s])
         ELSE LET m1 == StackSet([m EXCEPT !.sp = s], s, m.pc + 2)
                  target == AsUsize(CodeAt(m.pc + 1))
              IN  IF target >= Len(code) THEN Err(m1) ELSE [m1 EXCEPT !.pc = target]

ExecBZ(m) ==
    IF m.pc + 1 >= Len(code) THEN Err(m)
    ELSE IF m.ax = 0
         THEN LET target == AsUsize(CodeAt(m.pc + 1)) IN
              IF target >= Len(code) THEN Err(m) ELSE [m EXCEPT !.pc = target]
         ELSE [m EXCEPT !.pc = m.pc + 2]

ExecBNZ(m) ==
    IF m.pc + 1 >= Len(code) THEN Err(m)
    ELSE IF m.ax # 0
         THEN LET target == AsUsize(CodeAt(m.pc + 1)) IN
              IF target >= Len(code) THEN Err(m) ELSE [m EXCEPT !.pc = target]
         ELSE [m EXCEPT !.pc = m.pc + 2]

\* ENT that opens the frame without saving the caller's BP
ExecENT_NoSavedBP(m) ==
    IF m.pc + 1 >= Len(code) THEN Err(m)
    ELSE LET n  == AsUsize(CodeAt(m.pc + 1))
             s2 == WrapSub(m.sp, n)
         IN  IF s2 >= Len(m.stack) THEN Err([m EXCEPT !.sp = s2])
             ELSE [m EXCEPT !.bp = m.sp, !.sp = s2, !.pc = m.pc + 2]

ExecENT(m) ==
    IF m.pc + 1 >= Len(code) THEN Err(m)
    ELSE IF m.sp = 0 /\ build = "debug" THEN Panic(m)
    ELSE LET s == WrapSub(m.sp, 1) IN
         IF s >= Len(m.stack) THEN Err([m EXCEPT !.sp = s])
         ELSE LET m1 == StackSet([m EXCEPT !.sp = s, !.bp = s], s, m.bp)
                  n  == AsUsize(CodeAt(m.pc + 1))
              IN  IF s < n /\ build = "debug" THEN Panic(m1)
                  ELSE LET s2 == WrapSub(s, n) IN
                       IF s2 >= Len(m.stack) THEN Err([m1 EXCEPT !.sp = s2])
                       ELSE [m1 EXCEPT !.sp = s2, !.pc = m.pc + 2]

ExecADJ(m) ==
    IF m.pc + 1 >= Len(code) THEN Err(m)
    ELSE LET n == AsUsize(CodeAt(m.pc + 1)) IN
         IF m.sp + n >= UsizeMod /\ build = "debug" THEN Panic(m)
         ELSE LET s == WrapAdd(m.sp, n) IN
              IF s > Len(m.stack) THEN Err([m EXCEPT !.sp = s])
              ELSE [m EXCEPT !.sp = s, !.pc = m.pc + 2]

ExecLEV(m) ==
    LET s == m.bp IN
    IF s >= Len(m.stack) THEN Err([m EXCEPT !.sp = s])
    ELSE LET b == AsUsize(m.stack[s + 1]) IN
         IF s + 1 >= Len(m.stack) THEN Err([m EXCEPT !.sp = s + 1, !.bp = b])
         ELSE [m EXCEPT !.bp = b, !.pc = AsUsize(m.stack[s + 2]), !.sp = s + 2]

ExecLI(m) ==
    IF AsUsize(m.ax) >= Len(m.stack) THEN Err(m)
    ELSE [m EXCEPT !.ax = m.stack[AsUsize(m.ax) + 1], !.pc = m.pc + 1]

ExecLC(m) ==
    IF AsUsize(m.ax) >= Len(m.data) THEN Err(m)
    ELSE [m EXCEPT !.ax = m.data[AsUsize(m.ax) + 1], !.pc = m.pc + 1]

ExecSI(m) ==
    IF m.sp >= Len(m.stack) THEN Err(m)
    ELSE LET addr == AsUsize(m.stack[m.sp + 1])
             m1 == [m EXCEPT !.sp = m.sp + 1]
         IN  IF addr >= Len(m.stack) THEN Err(m1)
             ELSE [StackSet(m1, addr, m.ax) EXCEPT !.pc = m.pc + 1]

\* the address below which SC grows the data segment instead of failing
DataGrowLimit == 1000000

ExecSC(m) ==
    IF m.sp >= Len(m.stack) THEN Err(m)
    ELSE LET addr == AsUsize(m.stack[m.sp + 1])
             m1 == [m EXCEPT !.sp = m.sp + 1]
         IN  IF addr >= Len(m.data) /\ addr >= DataGrowLimit THEN Err(m1)
             ELSE LET d == IF addr >= Len(m.data) THEN Resize(m.data, addr + 1) ELSE m.data
                  IN  [m1 EXCEPT !.data = [d EXCEPT ![addr + 1] = m.ax % 256],
                                 !.pc = m.pc + 1]

ExecPSH(m) ==
    IF m.sp = 0 /\ build = "debug" THEN Panic(m)
    ELSE LET s == WrapSub(m.sp, 1) IN
         IF s >= Len(m.stack) THEN Err([m EXCEPT !.sp = s])
         ELSE [StackSet([m EXCEPT !.sp = s], s, m.ax) EXCEPT !.pc = m.pc + 1]

\* the shift count the host uses when the overflow check is off
ShiftCount(n) == n % 64

\* stack[sp] op ax
BinOp(op, l, r) ==
    CASE op \in {OR, XOR, AND} -> Bitwise(op, l, r)
      [] op = EQ -> Bool(l = r)
      [] op = NE -> Bool(l # r)
      [] op = LT -> Bool(l < r)
      [] op = GT -> Bool(l > r)
      [] op = LE -> Bool(l <= r)
      [] op = GE -> Bool(l >= r)
      [] op = SHL -> l * 2^ShiftCount(r)
      [] op = SHR -> l \div 2^ShiftCount(r)
      [] op = ADD -> l + r
      [] op = SUB -> l - r
      [] op = MUL -> l * r
      [] op = DIV -> TruncDiv(l, r)
      [] op = MOD -> TruncRem(l, r)

\* the operation panics: i64::MIN / -1 and i64::MIN % -1 on every build; a
\* shift count outside 0..63 and a result of + - * outside i64 on a debug build
Overflows(op, l, r) ==
    \/ op \in {DIV, MOD} /\ l = I64Min /\ r = -1
    \/ op \in {SHL, SHR} /\ r \notin 0..63 /\ build = "debug"
    \/ op \in {ADD, SUB, MUL} /\ BinOp(op, l, r) \notin I64Min..I64Max /\ build = "debug"

\* DIV and MOD that pop their left operand before they test the divisor
ExecBinary_PopBeforeZeroTest(m, op) ==
    IF m.sp >= Len(m.stack) THEN Err(m)
    ELSE IF op \in {DIV, MOD} /\ m.ax = 0 THEN Err([m EXCEPT !.sp = m.sp + 1])
    ELSE IF Overflows(op, m.stack[m.sp + 1], m.ax) THEN Panic(m)
    ELSE [m EXCEPT !.ax = WrapI64(BinOp(op, m.stack[m.sp + 1], m.ax)),
                   !.sp = m.sp + 1, !.pc = m.pc + 1]

ExecBinary(m, op) ==
    IF m.sp >= Len(m.stack) THEN Err(m)
    ELSE IF op \in {DIV, MOD} /\ m.ax = 0 THEN Err(m)
    ELSE IF Overflows(op, m.stack[m.sp + 1], m.ax) THEN Panic(m)
    ELSE [m EXCEPT !.ax = WrapI64(BinOp(op, m.stack[m.sp + 1], m.ax)),
                   !.sp = m.sp + 1, !.pc = m.pc + 1]

ExecEXIT(m) ==
    IF m.sp >= Len(m.stack) THEN Err(m)
    ELSE [m EXCEPT !.status = "ok", !.retval = m.stack[m.sp + 1]]

\* the most bytes the data segment can grow to: a larger resize ends the process
MaxAlloc == 16

\* self.data.resize(n, 0) when n exceeds the length of the segment
Grow(m, n) ==
    IF n > MaxAlloc THEN Panic(m)
    ELSE IF n > Len(m.data) THEN [m EXCEPT !.data = Resize(m.data, n)]
    ELSE m

RECURSIVE CStr(_, _)
\* the bytes of the data segment from ptr up to a NUL or the end of the segment
CStr(d, ptr) ==
    IF ptr < Len(d) /\ d[ptr + 1] # 0 THEN <<d[ptr + 1]>> \o CStr(d, ptr + 1) ELSE <<>>

\* std::str::from_utf8 is Ok, for strings of bytes that stand for themselves
IsUtf8(bytes) == \A i \in 1..Len(bytes) : bytes[i] < 128

\* the k-th word from the top of the stack, the top being word 0
Arg(m, k) == m.stack[m.sp + k + 1]

\* OPEN: fd is what the file system answers, 3 or -1
ExecOPEN(m, fd) ==
    IF m.sp + 1 >= Len(m.stack) THEN Err(m)
    ELSE IF ~IsUtf8(CStr(m.data, AsUsize(Arg(m, 1)))) THEN Err(m)
    ELSE [m EXCEPT !.ax = fd, !.sp = m.sp + 2, !.pc = m.pc + 1]

\* the byte the standard input delivers
StdinByte == 65

\* READ, after the data segment has grown: n is what reading the standard
\* input returns, the number of bytes read or -1
ReadInto(m, m1, n) ==
    IF m1.status = "panic" THEN m1
    ELSE IF Arg(m, 2) # 0 THEN [m1 EXCEPT !.ax = -1, !.sp = m.sp + 3, !.pc = m.pc + 1]
    ELSE [m1 EXCEPT !.data = [i \in 1..Len(m1.data) |->
                                 IF i - 1 - AsUsize(Arg(m, 1)) \in 0..(n - 1)
                                 THEN StdinByte ELSE m1.data[i]],
                    !.ax = n, !.sp = m.sp + 3, !.pc = m.pc + 1]

ExecREAD(m, n) ==
    IF m.sp + 2 >= Len(m.stack) THEN Err(m)
    ELSE ReadInto(m, Grow(m, AsUsize(Arg(m, 1)) + AsUsize(Arg(m, 0))), n)

ExecCLOS(m) ==
    IF m.sp >= Len(m.stack) THEN Err(m)
    ELSE [m EXCEPT !.ax = 0, !.sp = m.sp + 1, !.pc = m.pc + 1]

\* PRTF: the word after the opcode is the number of arguments
ExecPRTF(m) ==
    IF m.pc + 1 >= Len(code) THEN Err(m)
    ELSE IF m.sp + AsUsize(CodeAt(m.pc + 1)) > Len(m.stack) THEN Err(m)
    ELSE IF m.sp >= Len(m.stack) THEN Panic(m)
    ELSE IF ~IsUtf8(CStr(m.data, AsUsize(Arg(m, 0)))) THEN Err(m)
    ELSE [m EXCEPT !.ax = Len(CStr(m.data, AsUsize(Arg(m, 0)))),
                   !.sp = m.sp + AsUsize(CodeAt(m.pc + 1)), !.pc = m.pc + 2]

\* MALC, after the data segment has grown
Allocated(m, m1) ==
    IF m1.status = "panic" THEN m1
    ELSE [m1 EXCEPT !.ax = Len(m.data), !.sp = m.sp + 1, !.pc = m.pc + 1]

\* MALC that returns the end of the data segment without extending it
ExecMALC_NoGrowth(m) ==
    IF m.sp >= Len(m.stack) THEN Err(m)
    ELSE Allocated(m, m)

ExecMALC(m) ==
    IF m.sp >= Len(m.stack) THEN Err(m)
    ELSE Allocated(m, Grow(m, Len(m.data) + AsUsize(Arg(m, 0))))

ExecFREE(m) ==
    IF m.sp >= Len(m.stack) THEN Err(m)
    ELSE [m EXCEPT !.sp = m.sp + 1, !.pc = m.pc + 1]

\* MSET, after the data segment has grown
Filled(m, m1) ==
    IF m1.status = "panic" THEN m1
    ELSE [m1 EXCEPT !.data = [i \in 1..Len(m1.data) |->
                                 IF i - 1 - AsUsize(Arg(m, 2)) \in 0..(AsUsize(Arg(m, 0)) - 1)
                                 THEN Arg(m, 1) % 256 ELSE m1.data[i]],
                    !.ax = AsUsize(Arg(m, 2)), !.sp = m.sp + 3, !.pc = m.pc + 1]

ExecMSET(m) ==
    IF m.sp + 2 >= Len(m.stack) THEN Err(m)
    ELSE Filled(m, Grow(m, AsUsize(Arg(m, 2)) + AsUsize(Arg(m, 0))))

\* the offsets below count at which the bytes at s1 and at s2 differ
Differing(d, s1, s2, count) == {i \in 0..(count - 1) : d[s1 + i + 1] # d[s2 + i + 1]}

\* the least element of a non-empty set of numbers
Least(S) == CHOOSE i \in S : \A j \in S : i <= j

\* MCMP on buffers inside the data segment: at the first difference the
\* handler executes `return Ok(0)`
Compared(m, s1, s2, count) ==
    IF Differing(m.data, s1, s2, count) # {}
    THEN [m EXCEPT !.ax = m.data[s1 + Least(Differing(m.data, s1, s2, count)) + 1]
                          - m.data[s2 + Least(Differing(m.data, s1, s2, count)) + 1],
                   !.sp = m.sp + 3, !.pc = m.pc + 1, !.status = "ok", !.retval = 0]
    ELSE [m EXCEPT !.ax = 0, !.sp = m.sp + 3, !.pc = m.pc + 1]

ExecMCMP(m) ==
    IF m.sp + 2 >= Len(m.stack) THEN Err(m)
    ELSE IF AsUsize(Arg(m, 2)) + AsUsize(Arg(m, 0)) >= UsizeMod
            \/ AsUsize(Arg(m, 1)) + AsUsize(Arg(m, 0)) >= UsizeMod THEN Panic(m)
    ELSE IF AsUsize(Arg(m, 2)) + AsUsize(Arg(m, 0)) > Len(m.data)
            \/ AsUsize(Arg(m, 1)) + AsUsize(Arg(m, 0)) > Len(m.data) THEN Err(m)
    ELSE Compared(m, AsUsize(Arg(m, 2)), AsUsize(Arg(m, 1)), AsUsize(Arg(m, 0)))

----------------------------------------------------------------------------
(* Hand-written code vectors, as the VM's tests build them *)

\* the values used as literals, arguments and exit codes
Words == {0, 7, 42}

\* tests/vm_tests.rs test_vm_basic_operations: [IMM v, EXIT]
ExitProg(v) == <<IMM, v, EXIT>>

\* vm.rs tests::test_vm_function_call, with the argument a
FunctionCallProg(a) ==
    <<JMP, 10,
      ENT, 0, LEA, 2, LI, PSH, IMM, 2, MUL, LEV,
      IMM, a, PSH, JSR, 2, ADJ, 1, EXIT>>

\* the index of main in FunctionCallProg: the IMM that loads the argument
FunctionCallMain == 12

RECURSIVE PushArgs(_, _)
\* IMM a_k; PSH for k = from..n, left to right
PushArgs(from, n) ==
    IF from > n THEN <<>> ELSE <<IMM, ArgValue(from), PSH>> \o PushArgs(from + 1, n)

\* a caller that pushes n arguments, calls and drops them, and a callee ENT m; LEV
CallProg(n, m) ==
    PushArgs(1, n) \o <<JSR, 3 * n + 5, ADJ, n, EXIT>> \o <<ENT, m, LEV>>

\* the index of the callee's ENT in CallProg(n, m)
CallProgCallee(n) == 3 * n + 5

\* tests/vm_tests.rs test_vm_conditional_branching, on the condition c
BranchProg(c) ==
    <<IMM, c, BZ, 8, IMM, 42, JMP, 10, IMM, 7, BNZ, 13, NEG, IMM, 7, PSH, EXIT>>

\* tests/vm_tests.rs test_vm_memory_operations: char loads and stores at address a
MemoryProg(a) ==
    <<IMM, a, LC, IMM, a, PSH, IMM, 7, SC, IMM, a, LC, PSH, EXIT>>

\* tests/vm_tests.rs test_vm_error_handling: 10 op d, with the divisor d in AX
DivProg(op, d) == <<IMM, 10, PSH, IMM, d, op, EXIT>>

\* tests/vm_tests.rs test_vm_error_handling: a transfer to an address outside the code
BadTarget == 999
BadJumpProg(op) == <<op, BadTarget, EXIT>>

\* tests/vm_tests.rs test_vm_arithmetic: l op r, with l pushed and r in AX
BinaryProg(op, l, r) == <<IMM, l, PSH, IMM, r, op, EXIT>>

\* the operand pairs of BinaryProg: small words of either sign, and the width
\* of a word as right operand
Operands == {<<5, 3>>, <<-7, 3>>, <<1, 64>>}

\* the arguments of the hand-written system calls, in the order they are pushed
ArgLists == {<<0, 2, 1>>, <<0, 1, 1>>, <<0, 7, 2>>}

\* three arguments pushed, a system call, and its result pushed for EXIT; the
\* word after the opcode is the argument count PRTF reads
SyscallProg(op, args) ==
    <<IMM, args[1], PSH, IMM, args[2], PSH, IMM, args[3], PSH, op, 1, PSH, EXIT>>

\* the most negative word divided by -1
MinDivProg(op) == BinaryProg(op, I64Min, -1)

\* the data segment of the hand-written system calls
SyscallData == <<42, 0, 42>>

\* the sizes given to MALC
Sizes == {0, 2, 3}

\* two allocations: the first address is kept on the stack, the second in AX
MallocProg(s1, s2) == <<IMM, s1, PSH, MALC, PSH, IMM, s2, PSH, MALC, PSH, EXIT>>

RawInputs ==
    {[code |-> ExitProg(v), data |-> <<>>] : v \in Words}
    \cup {[code |-> FunctionCallProg(a), data |-> <<>>] : a \in Words}
    \cup {[code |-> CallProg(n, m), data |-> <<>>] : n \in 0..MaxCallArgs, m \in 0..MaxEnt}
    \cup {[code |-> BranchProg(c), data |-> <<>>] : c \in {0, 7}}
    \cup {[code |-> MemoryProg(a), data |-> <<42, 0>>] : a \in 0..2}
    \cup {[code |-> DivProg(op, d), data |-> <<>>] : op \in {DIV, MOD}, d \in {0, 7}}
    \cup {[code |-> BadJumpProg(op), data |-> <<>>] : op \in {JMP, JSR, BZ, BNZ}}
    \cup {[code |-> BinaryProg(op, o[1], o[2]), data |-> <<>>] : op \in BinaryOps, o \in Operands}
    \cup {[code |-> SyscallProg(op, args), data |-> SyscallData] :
              op \in OPEN..MCMP, args \in ArgLists}
    \cup {[code |-> MallocProg(s1, s2), data |-> SyscallData] : s1, s2 \in Sizes}
    \cup {[code |-> MinDivProg(op), data |-> <<>>] : op \in {DIV, MOD}}

\* the sources given to the compiler; MaxLocals bounds the locals of a generated callee
MaxLocals == 1
Sources ==
    {SrcReturn(v, semi) : v \in Words, semi \in BOOLEAN}
    \cup UNION {{SrcParam(n, m, k, TRUE) : k \in 1..n, m \in 0..MaxLocals} : n \in 1..MaxParams}
    \cup {SrcAdd(semi) : semi \in BOOLEAN}
    \cup {SrcLocals(TRUE), SrcAssignParam(TRUE), SrcAssignLocal(TRUE), SrcGlobal(TRUE)}
    \cup {SrcSyscall(k) : k \in 1..Len(Arity)}
    \cup {SrcWhile(n) : n \in Counts}
    \cup {SrcLogical(tok, a, b) : tok \in {"Lan", "Lor"}, a, b \in Truth}
    \cup {SrcIncDec(form, v) : form \in DOMAIN Forms, v \in Words}

\* the parser after init and parse on each source
Compiled == [src \in Sources |-> Compile(src)]

\* the driver hands get_code and get_data of a successful parse to VirtualMachine::new
CompiledInputs ==
    {[code |-> P.code, data |-> P.data] : P \in {Q \in {Compiled[src] : src \in Sources} : Ok(Q)}}

Inputs == RawInputs \cup CompiledInputs

----------------------------------------------------------------------------
(* The run of a program *)

\* the stack sizes VirtualMachine::new is given
SmallStack == 5
StackSizes == (0..SmallStack) \cup {MaxStack}

\* VirtualMachine::new(code, data, stack_size, debug)
Init ==
    /\ \E in \in Inputs : code = in.code /\ data = in.data
    /\ \E stack_size \in StackSizes :
          /\ stack = [i \in 1..stack_size |-> 0]
          /\ sp = stack_size
          /\ bp = stack_size
    /\ pc = 0
    /\ ax = 0
    /\ cycle = 0
    /\ entry_point = 0
    /\ status = "new"
    /\ retval = 0
    /\ build \in {"debug", "release"}
    /\ symbols = <<>>
    /\ name_map = <<>>
    /\ scope_level = 0
    /\ calls = <<>>
    /\ source = <<>>
    /\ parsers = <<>>
    /\ stage = <<>>
    /\ lexer = <<>>

\* the handler's outcome becomes the machine's state
Commit(m) ==
    /\ pc' = m.pc
    /\ sp' = m.sp
    /\ bp' = m.bp
    /\ ax' = m.ax
    /\ stack' = m.stack
    /\ data' = m.data
    /\ status' = m.status
    /\ retval' = m.retval

\* run(entry_point, args), up to the first iteration of its loop
Run ==
    /\ status = "new"
    /\ \E entry \in 0..Len(code), argc \in 0..MaxArgc :
          /\ Commit(Startup(Machine, entry, argc))
          /\ entry_point' = entry
    /\ UNCHANGED <<code, cycle, build, symVars, parVars, lexVars>>

\* the loop reaches an instruction whose opcode word is op
Fetch(op) ==
    /\ status = "running"
    /\ cycle < MaxCycle
    /\ pc < Len(code)
    /\ AsUsize(CodeAt(pc)) = op

\* one iteration of the loop, ended by handler outcome m
Step(m) ==
    /\ Commit(m)
    /\ cycle' = cycle + 1
    /\ UNCHANGED <<code, entry_point, build, symVars, parVars, lexVars>>

PcOutOfBounds ==
    /\ status = "running"
    /\ cycle < MaxCycle
    /\ pc >= Len(code)
    /\ Step(Err(Machine))

StepLEA == Fetch(LEA) /\ Step(ExecLEA(Machine))
StepIMM == Fetch(IMM) /\ Step(ExecIMM(Machine))
StepJMP == Fetch(JMP) /\ Step(ExecJMP(Machine))
StepJSR == Fetch(JSR) /\ Step(ExecJSR(Machine))
StepBZ == Fetch(BZ) /\ Step(ExecBZ(Machine))
StepBNZ == Fetch(BNZ) /\ Step(ExecBNZ(Machine))
StepENT == Fetch(ENT) /\ Step(ExecENT(Machine))
StepADJ == Fetch(ADJ) /\ Step(ExecADJ(Machine))
StepLEV == Fetch(LEV) /\ Step(ExecLEV(Machine))
StepLI == Fetch(LI) /\ Step(ExecLI(Machine))
StepLC == Fetch(LC) /\ Step(ExecLC(Machine))
StepSI == Fetch(SI) /\ Step(ExecSI(Machine))
StepSC == Fetch(SC) /\ Step(ExecSC(Machine))
StepPSH == Fetch(PSH) /\ Step(ExecPSH(Machine))
StepBinary == \E op \in BinaryOps : Fetch(op) /\ Step(ExecBinary(Machine, op))
StepOPEN == Fetch(OPEN) /\ \E fd \in {3, -1} : Step(ExecOPEN(Machine, fd))
StepREAD ==
    /\ Fetch(READ)
    /\ \E n \in -1..MaxAlloc :
          /\ sp + 2 < Len(stack) => n <= AsUsize(stack[sp + 1])
          /\ Step(ExecREAD(Machine, n))
StepCLOS == Fetch(CLOS) /\ Step(ExecCLOS(Machine))
StepPRTF == Fetch(PRTF) /\ Step(ExecPRTF(Machine))
StepMALC == Fetch(MALC) /\ Step(ExecMALC(Machine))
StepFREE == Fetch(FREE) /\ Step(ExecFREE(Machine))
StepMSET == Fetch(MSET) /\ Step(ExecMSET(Machine))
StepMCMP == Fetch(MCMP) /\ Step(ExecMCMP(Machine))
StepEXIT == Fetch(EXIT) /\ Step(ExecEXIT(Machine))

\* the opcodes run's match has an arm for
Handled == (LEA..PSH) \cup BinaryOps \cup (OPEN..EXIT)

\* the match's last arm: Unknown opcode
StepUnknown ==
    /\ status = "running"
    /\ cycle < MaxCycle
    /\ pc < Len(code)
    /\ AsUsize(CodeAt(pc)) \notin Handled
    /\ Step(Err(Machine))

Next ==
    \/ Run
    \/ PcOutOfBounds
    \/ StepLEA
    \/ StepIMM
    \/ StepJMP
    \/ StepJSR
    \/ StepBZ
    \/ StepBNZ
    \/ StepENT
    \/ StepADJ
    \/ StepLEV
    \/ StepLI
    \/ StepLC
    \/ StepSI
    \/ StepSC
    \/ StepPSH
    \/ StepBinary
    \/ StepOPEN
    \/ StepREAD
    \/ StepCLOS
    \/ StepPRTF
    \/ StepMALC
    \/ StepFREE
    \/ StepMSET
    \/ StepMCMP
    \/ StepEXIT
    \/ StepUnknown

Spec == Init /\ [][Next]_vars

----------------------------------------------------------------------------
(* Properties of the virtual machine and of compiled programs *)

\* run has returned or panicked
Finished == status \in {"ok", "err", "panic"}

\* the machine was given the code of src and run at its main, as the driver does
RunOf(src) ==
    /\ status # "new"
    /\ Ok(Compiled[src])
    /\ code = Compiled[src].code
    /\ entry_point = GetEntryPoint(Compiled[src])

\* SP and BP of main's frame after its ENT, when main has no locals: the four
\* startup pushes and the saved BP below the top of the stack
MainFrame == Len(stack) - 5

\* C1: run at the address of a compiled main returns Ok(v), v the value main
\* returned: for `int main() { return v; };` every finished run is Ok(v).
C1_MainReturnsValue ==
    \A v \in Words :
        RunOf(SrcReturn(v, TRUE)) /\ Len(stack) = MaxStack /\ Finished
            => status = "ok" /\ retval = v

\* C2: the code [IMM v, EXIT] run from entry point 0 on a fresh machine returns
\* Ok(v), the value held in AX.
C2_ExitReturnsAX ==
    \A v \in Words :
        code = ExitProg(v) /\ entry_point = 0 /\ status = "ok" => retval = v

\* C3: inside a compiled function called with ArgValue(1..n), the reference to the
\* k-th parameter loads ArgValue(k) (AX after the LEA and LI of `return pk`), and
\* add(10, 20) with body `return a + b` leaves 30 in AX when main resumes.
C3_ParamLoadsArg ==
    /\ \A n \in 1..MaxParams, m \in 0..MaxLocals, k \in 1..MaxParams :
          k <= n /\ RunOf(SrcParam(n, m, k, TRUE)) /\ status = "running" /\ pc = 5
              => ax = ArgValue(k)
    /\ RunOf(SrcAdd(TRUE)) /\ status = "running" /\ pc = 24 => ax = 30

\* the call sequence CallProg(n, m) run from 0 has executed the callee's ENT m
AfterEnt(n, m) ==
    /\ code = CallProg(n, m)
    /\ entry_point = 0
    /\ status = "running"
    /\ pc = CallProgCallee(n) + 2

InFunctionCall(a) ==
    /\ code = FunctionCallProg(a)
    /\ entry_point = FunctionCallMain
    /\ status = "running"

\* C5: after PSH of one argument, JSR and ENT 0, `LEA 2; LI` loads the argument
\* into AX (pc 7); after the callee's LEV the caller resumes at the word after the
\* JSR operand (pc 17) and after ADJ 1 (pc 19) the callee's result is still in AX.
C5_CallLoadsArgAndReturns ==
    \A a \in Words :
        InFunctionCall(a) =>
            /\ pc = 7 => ax = a
            /\ pc \in {11, 17, 19} => ax = 2 * a
            /\ pc \in 13..19 => pc \in {14, 15, 17, 19}

\* the caller of FunctionCallProg(42) has executed ADJ 1 after the call
C5_Witness == InFunctionCall(42) /\ pc = 19 /\ ax = 84

\* C6: frame balance: SP and BP after the call (after the caller's ADJ argc when
\* there are arguments) equal their values before the first argument was pushed.
\* In `int f() { int x; x = 7; return x; }` called from main they are those of
\* main's frame before the JSR (pc 15) and after the return (pc 17); with
\* `int f(int a) { a = 5; return a; }` before the argument (pc 15) and after ADJ (pc 22).
C6_FrameBalance ==
    /\ RunOf(SrcAssignLocal(TRUE)) /\ status = "running" /\ pc \in {15, 17}
          => sp = MainFrame /\ bp = MainFrame
    /\ RunOf(SrcAssignParam(TRUE)) /\ status = "running" /\ pc \in {15, 22}
          => sp = MainFrame /\ bp = MainFrame

\* C7: in every state reached by new and run that is not an error return,
\* 0 <= SP <= stack_size.
C7_SpInRange == status # "err" => sp >= 0 /\ sp <= Len(stack)

\* C8: from a compiled function's ENT to its LEV, BP indexes the slot that holds
\* the caller's BP: main of `int x; int y; x = 10; y = 20; return x + y;` was entered
\* with BP = stack_size, and f of `a = 5; return a;` with the BP of main's frame.
C8_BPHoldsCallerBP ==
    /\ RunOf(SrcLocals(TRUE)) /\ status = "running" /\ pc \in 2..22
          => bp < Len(stack) /\ stack[bp + 1] = Len(stack)
    /\ RunOf(SrcAssignParam(TRUE)) /\ status = "running" /\ pc \in 2..11
          => bp < Len(stack) /\ stack[bp + 1] = MainFrame

----------------------------------------------------------------------------
(* The symbol table under the calls of a user, as tests/symbol_tests.rs makes *)
(* them: add at the current level, enter_scope, exit_scope.                    *)

\* the most calls a user makes, and the most symbols it adds
MaxCalls == 7
MaxSymbols == 3

Names == {"x", "y"}

\* the table the variables hold
Table == [symbols |-> symbols, name_map |-> name_map, scope_level |-> scope_level]

SetTable(t) ==
    /\ symbols' = t.symbols
    /\ name_map' = t.name_map
    /\ scope_level' = t.scope_level

\* a call as the user's record of it
Call(op, name, class, typ, value) ==
    [op |-> op, name |-> name, class |-> class, typ |-> typ, value |-> value]

\* the table after call c
Apply(t, c) ==
    CASE c.op = "add" -> SymAdd(t, c.name, c.class, c.typ, c.value)
      [] c.op = "enter" -> SymEnterScope(t)
      [] c.op = "exit" -> SymExitScope(t)

InitSym ==
    /\ symbols = NewTable.symbols
    /\ name_map = NewTable.name_map
    /\ scope_level = NewTable.scope_level
    /\ calls = <<>>
    /\ code = <<>>
    /\ data = <<>>
    /\ stack = <<>>
    /\ pc = 0
    /\ sp = 0
    /\ bp = 0
    /\ ax = 0
    /\ cycle = 0
    /\ entry_point = 0
    /\ status = "new"
    /\ retval = 0
    /\ build = "release"
    /\ source = <<>>
    /\ parsers = <<>>
    /\ stage = <<>>
    /\ lexer = <<>>

Does(c) ==
    /\ SetTable(Apply(Table, c))
    /\ calls' = Append(calls, c)
    /\ UNCHANGED <<vmVars, parVars, lexVars>>

\* table.add(name, class, typ, value): a global at level 0, a local inside a scope,
\* with the next free slot as its value
Add ==
    /\ Len(calls) < MaxCalls
    /\ Len(symbols) < MaxSymbols
    /\ \E name \in Names, typ \in {CHAR, INT} :
          Does(Call("add", name, IF scope_level = 0 THEN "Glo" ELSE "Loc", typ,
                    Len(symbols)))

\* table.enter_scope()
EnterScope ==
    /\ Len(calls) < MaxCalls
    /\ Does(Call("enter", "", None, None, 0))

\* table.exit_scope()
ExitScope ==
    /\ Len(calls) < MaxCalls
    /\ Does(Call("exit", "", None, None, 0))

NextSym ==
    \/ Add
    \/ EnterScope
    \/ ExitScope

SpecSym == InitSym /\ [][NextSym]_vars

----------------------------------------------------------------------------
(* Properties of the symbol table *)

RECURSIVE Replay(_)
\* the table after the calls cs on a new table
Replay(cs) ==
    IF cs = <<>> THEN NewTable
    ELSE Apply(Replay(SubSeq(cs, 1, Len(cs) - 1)), cs[Len(cs)])

\* the table before call number i
Before(i) == Replay(SubSeq(calls, 1, i - 1))

\* the last call was an exit_scope that closed a scope
ClosedScope ==
    /\ calls # <<>>
    /\ calls[Len(calls)].op = "exit"
    /\ Before(Len(calls)).scope_level > 0

\* the enter_scope calls that opened a scope at the level the last call returned to
Enters ==
    {i \in 1..Len(calls) : calls[i].op = "enter" /\ Before(i).scope_level = scope_level}

\* the enter_scope that the last call matches: the latest of them
MatchingEnter == CHOOSE i \in Enters : \A j \in Enters : j <= i

\* the names added since the matching enter_scope
AddedInScope ==
    {calls[i].name : i \in {j \in MatchingEnter..Len(calls) : calls[j].op = "add"}}

\* C9: after an exit_scope, every name added since the matching enter_scope is
\* either not found or resolves to the binding it had before that scope was
\* entered, never to the inner binding.
C9_ExitScopeHidesInner ==
    ClosedScope =>
        \A name \in AddedInScope :
            \/ ~SymExists(Table, name)
            \/ /\ SymExists(Before(MatchingEnter), name)
               /\ SymGet(Table, name) = SymGet(Before(MatchingEnter), name)

\* the symbol that the add call c made
Added(c) == NewSymbol(c.name, c.class, c.typ, c.value)

\* one name is added at global level, in a function scope and in a block scope
Shadowing ==
    /\ Len(calls) >= 5
    /\ calls[1].op = "add" /\ calls[3].op = "add" /\ calls[5].op = "add"
    /\ calls[2].op = "enter" /\ calls[4].op = "enter"
    /\ calls[3].name = calls[1].name /\ calls[5].name = calls[1].name
    /\ \A i \in 6..Len(calls) : calls[i].op = "exit"

\* C10: with one name bound at global level, in a function scope and in a block
\* scope, get returns the innermost binding while its scope is open, after the
\* first exit_scope the function-level binding and after the second the global one.
C10_ShadowingRevealed ==
    Shadowing =>
        /\ Len(calls) = 5 => SymGet(Table, calls[1].name) = Added(calls[5])
        /\ Len(calls) = 6 => SymGet(Table, calls[1].name) = Added(calls[3])
        /\ Len(calls) = 7 => SymGet(Table, calls[1].name) = Added(calls[1])

----------------------------------------------------------------------------
(* Failure semantics of the virtual machine *)

\* the loop is about to execute the instruction whose opcode word is op
At(op) == status = "running" /\ pc < Len(code) /\ AsUsize(CodeAt(pc)) = op

\* C11: DIV or MOD executed with AX = 0 ends run with a VM error (no value is
\* returned and execution does not continue), and AX, SP and the stack are left
\* as they were before the instruction.
C11_DivByZeroIsError ==
    [][(At(DIV) \/ At(MOD)) /\ ax = 0 /\ cycle' # cycle
        => status' = "err" /\ ax' = ax /\ sp' = sp /\ stack' = stack]_vars

\* 10 / 0 of DivProg was refused with the operand 10 still on the stack
C11_Witness ==
    /\ code = DivProg(DIV, 0) /\ entry_point = 0 /\ status = "err"
    /\ pc = 5 /\ ax = 0 /\ sp < Len(stack) /\ stack[sp + 1] = 10

\* the instruction at pc transfers control to an address outside the code vector
TransfersOutside ==
    /\ pc + 1 < Len(code)
    /\ AsUsize(CodeAt(pc + 1)) >= Len(code)
    /\ \/ At(JMP)
       \/ At(JSR)
       \/ At(BZ) /\ ax = 0
       \/ At(BNZ) /\ ax # 0

\* C12: run never executes outside the code vector: when PC is outside it (a bad
\* entry point, a return address popped by LEV) or the instruction is a JMP, a
\* JSR or a taken BZ or BNZ whose target is outside it, the iteration ends run
\* with a VM error.
C12_BadTargetIsError ==
    [][/\ status = "running"
       /\ cycle' # cycle
       /\ pc >= Len(code) \/ TransfersOutside
       => status' = "err"]_vars

\* the instruction at pc is a load or a store whose address is outside the
\* segment the instruction addresses: the stack for LI and SI, data for LC and SC
AccessOutside ==
    \/ At(LI) /\ AsUsize(ax) >= Len(stack)
    \/ At(LC) /\ AsUsize(ax) >= Len(data)
    \/ At(SI) /\ sp < Len(stack) /\ AsUsize(stack[sp + 1]) >= Len(stack)
    \/ At(SC) /\ sp < Len(stack) /\ AsUsize(stack[sp + 1]) >= Len(data)

\* C13: a load or store (LI, LC, SI, SC) whose address lies outside its segment
\* ends run with a VM error and leaves the stack and the data segment unchanged;
\* the data segment keeps its length.
C13_OutOfBoundsAccessIsError ==
    [][AccessOutside /\ cycle' # cycle
        => status' = "err" /\ stack' = stack /\ data' = data]_vars

----------------------------------------------------------------------------
(* Global variables *)

\* C14: word accesses to a global variable go to the data segment and never to
\* the stack: in `int g; int main() { g = 7; return g; }` the SI of the
\* assignment changes no stack slot, and the LI of `return g` (pc 11 after it)
\* leaves the stored word 7 in AX.
C14_GlobalsLiveInData ==
    /\ [][RunOf(SrcGlobal(TRUE)) /\ At(SI) /\ cycle' # cycle => stack' = stack]_vars
    /\ [](RunOf(SrcGlobal(TRUE)) /\ status = "running" /\ pc = 11 => ax = 7)

----------------------------------------------------------------------------
(* Compiling a source: Parser::new, init and parse, as compile_and_run does, *)
(* by two independent Parser instances on the same source text               *)

\* a string literal of the source text, before the lexer has read it
StrLit(content) == Token("StrLit", 0, content)

\* the addresses the allocator may give the String that read_string_or_char
\* builds for a string literal
HeapAddrs == {4096, 8192}

\* Lexer::read_string_or_char on a string literal: a Num token whose value is
\* string_content.as_ptr(), whose name is the content
ReadString(lit, ptr) == Token("Num", ptr, lit.name)

\* the characters ! (not followed by =) and ~ of the source text
NotChars == {"!", "~"}

\* the tokens Lexer::next_token delivers for a source text when the allocator
\* places the strings of its literals at ptr: ! and ~ both become Tilde
Lex(text, ptr) ==
    [i \in 1..Len(text) |-> IF text[i].type = "StrLit" THEN ReadString(text[i], ptr)
                            ELSE IF text[i].type \in NotChars THEN T("Tilde")
                            ELSE text[i]]

\* int main() { return !v; }; and int main() { return ~v; };
SrcNot(ch, v) == FnToks("main", <<>>, ReturnToks(<<T(ch), NumTok(v)>>), TRUE)

\* the sources with a logical or a bitwise not
NotTexts == {SrcNot(ch, v) : ch \in NotChars, v \in {0, 7}}

\* int main() { return "hi"; }
SrcString(semi) == FnToks("main", <<>>, ReturnToks(<<StrLit("hi")>>), semi)

\* an expression of the source text and whether the grammar makes it an lvalue
Expr(toks, lvalue) == [toks |-> toks, lvalue |-> lvalue]

\* the locals of main in the sources built by SrcBody, in declaration order
MainLocals == <<"x", "y", "p", "c">>

\* the variables, dereferences and index expressions: x, y, p, c, g, *p, p[0]
Lvalues ==
    {Expr(<<IdTok(name)>>, TRUE) : name \in {"x", "y", "p", "c", "g"}}
    \cup {Expr(<<T("Mul"), IdTok("p")>>, TRUE),
          Expr(<<IdTok("p"), T("Brak"), NumTok(0), T("RBracket")>>, TRUE)}

\* the literals of the expressions
Literals == {0, 7, 9, 10, 42}

\* the number of arguments of the longer call
ManyArgs == 9

\* literals, the enum constant K, exit(0), exit(10, ..., 90), x + 1, x < y,
\* x && y, x || y, x ? 1 : y, x = 1, x++ and x--
Rvalues ==
    {Expr(<<NumTok(v)>>, FALSE) : v \in Literals}
    \cup {Expr(<<IdTok("K")>>, FALSE),
          Expr(CallToks("exit", <<NumTok(0)>>), FALSE),
          Expr(CallToks("exit", ArgToks(1, ManyArgs)), FALSE),
          Expr(<<IdTok("x"), T("Add"), NumTok(1)>>, FALSE),
          Expr(<<IdTok("x"), T("Lt"), IdTok("y")>>, FALSE),
          Expr(<<IdTok("x"), T("Lan"), IdTok("y")>>, FALSE),
          Expr(<<IdTok("x"), T("Lor"), IdTok("y")>>, FALSE),
          Expr(<<IdTok("x"), T("Cond"), NumTok(1), T("Colon"), IdTok("y")>>, FALSE),
          Expr(<<IdTok("x"), T("Assign"), NumTok(1)>>, FALSE),
          Expr(<<IdTok("x"), T("Inc")>>, FALSE),
          Expr(<<IdTok("x"), T("Dec")>>, FALSE)}

Exprs == Lvalues \cup Rvalues

\* enum { K = 10 }; int g; int main() { int x; int y; int *p; char c; body }
SrcBody(body) ==
    <<T("Enum"), T("LBrace"), IdTok("K"), T("Assign"), NumTok(10), T("RBrace"), T("Semicolon"),
      T("Int"), IdTok("g"), T("Semicolon")>>
    \o FnToks("main", <<>>,
              <<T("Int"), IdTok("x"), T("Semicolon"), T("Int"), IdTok("y"), T("Semicolon"),
                T("Int"), T("Mul"), IdTok("p"), T("Semicolon"),
                T("Char"), IdTok("c"), T("Semicolon")>> \o body, TRUE)

\* ... int main() { ...; e; }
SrcExpr(e) == SrcBody(e.toks \o <<T("Semicolon")>>)

\* the operators that need an lvalue operand
Uses == {"Assign", "And", "PreInc", "PreDec", "PostInc", "PostDec"}

\* e as an operand: in parentheses unless it is a single token
Operand(e) == IF Len(e.toks) = 1 THEN e.toks ELSE <<T("LParen")>> \o e.toks \o <<T("RParen")>>

\* e = 1, &e, ++e, --e, e++, e--
UseToks(use, e) ==
    CASE use = "Assign" -> Operand(e) \o <<T("Assign"), NumTok(1)>>
      [] use = "And" -> <<T("And")>> \o Operand(e)
      [] use = "PreInc" -> <<T("Inc")>> \o Operand(e)
      [] use = "PreDec" -> <<T("Dec")>> \o Operand(e)
      [] use = "PostInc" -> Operand(e) \o <<T("Inc")>>
      [] use = "PostDec" -> Operand(e) \o <<T("Dec")>>

\* ... int main() { ...; e = 1; } and the like
SrcUse(use, e) == SrcBody(UseToks(use, e) \o <<T("Semicolon")>>)

\* x = x - 1;
Decrement == AssignToks("x", <<IdTok("x"), T("Sub"), NumTok(1)>>)

\* if (x) then-clause
IfToks(then) == <<T("If"), T("LParen"), IdTok("x"), T("RParen")>> \o then

\* while (x) body
WhileToks(body) == <<T("While"), T("LParen"), IdTok("x"), T("RParen")>> \o body

\* function bodies with branches:
\*   if (x) x = x - 1;
\*   if (x) return 1; else return 2;
\*   while (x) x = x - 1; return x;
\*   while (x) { if (y) x = x - 1; else return y; }
\*   return x && y || g;
\*   return x ? y : 2;
BranchBodies ==
    {IfToks(Decrement),
     IfToks(ReturnToks(<<NumTok(1)>>)) \o <<T("Else")>> \o ReturnToks(<<NumTok(2)>>),
     WhileToks(Decrement) \o ReturnToks(<<IdTok("x")>>),
     WhileToks(<<T("LBrace")>>
               \o <<T("If"), T("LParen"), IdTok("y"), T("RParen")>> \o Decrement
               \o <<T("Else")>> \o ReturnToks(<<IdTok("y")>>) \o <<T("RBrace")>>),
     ReturnToks(<<IdTok("x"), T("Lan"), IdTok("y"), T("Lor"), IdTok("g")>>),
     ReturnToks(<<IdTok("x"), T("Cond"), IdTok("y"), T("Colon"), NumTok(2)>>)}

\* int f(int x) { if (x) return f(x - 1); return 0; }  int main() { return f(7); }
SrcRecursion ==
    FnToks("f", <<T("Int"), IdTok("x")>>,
           IfToks(ReturnToks(CallToks("f", <<IdTok("x"), T("Sub"), NumTok(1)>>)))
           \o ReturnToks(<<NumTok(0)>>), TRUE)
    \o FnToks("main", <<>>, ReturnToks(CallToks("f", <<NumTok(7)>>)), TRUE)

\* the sources with branches and calls
BranchTexts ==
    {SrcBody(body) : body \in BranchBodies}
    \cup {SrcRecursion, SrcAdd(TRUE), SrcAssignLocal(TRUE)}

\* int main() { return 0; }
MainToks == FnToks("main", <<>>, ReturnToks(<<NumTok(0)>>), TRUE)

\* sources that declare the name of a built-in function again:
\*   enum { name };  int main() { return 0; }
\*   int name;  int main() { return 0; }
\*   int f(int name) { return 0; }  int main() { return 0; }
\*   int main() { int name; return 0; }
Redeclarations(name) ==
    {<<T("Enum"), T("LBrace"), IdTok(name), T("RBrace"), T("Semicolon")>> \o MainToks,
     <<T("Int"), IdTok(name), T("Semicolon")>> \o MainToks,
     FnToks("f", <<T("Int"), IdTok(name)>>, ReturnToks(<<NumTok(0)>>), TRUE) \o MainToks,
     FnToks("main", <<>>, <<T("Int"), IdTok(name), T("Semicolon")>>
                          \o ReturnToks(<<NumTok(0)>>), TRUE)}

RedeclaringTexts == UNION {Redeclarations(name) : name \in {"open", "exit"}}

\* int f() { return 0; }
OtherToks == FnToks("f", <<>>, ReturnToks(<<NumTok(0)>>), TRUE)

\* sources without a function main: the empty source, `int g;`, a function f
\* alone, `int main;` and `enum { main };` before a function f
NoMainTexts ==
    {<<>>,
     <<T("Int"), IdTok("g"), T("Semicolon")>>,
     OtherToks,
     <<T("Int"), IdTok("main"), T("Semicolon")>> \o OtherToks,
     <<T("Enum"), T("LBrace"), IdTok("main"), T("RBrace"), T("Semicolon")>> \o OtherToks}

\* sources in which the name main is declared again, before, in or after the
\* function main
MainAgainTexts ==
    Redeclarations("main")
    \cup {MainToks \o <<T("Enum"), T("LBrace"), IdTok("main"), T("RBrace"), T("Semicolon")>>,
          MainToks \o FnToks("f", <<T("Int"), IdTok("main")>>, ReturnToks(<<NumTok(0)>>), TRUE)}

\* int x = v;  int main() { return 0; }
SrcGlobalInit(v) ==
    <<T("Int"), IdTok("x"), T("Assign"), NumTok(v), T("Semicolon")>> \o MainToks

\* the global declarations with an initializer
InitTexts == {SrcGlobalInit(v) : v \in Literals}

\* the most members of a generated enum, and their names by position
MaxMembers == 4
MemberName(k) == <<"R", "G", "B", "Y", "W", "V">>[k]

\* the explicit values of the members that have one
EnumValues == {0, 5}

\* a member of an enum: with or without `= value`
Members ==
    {[explicit |-> FALSE, value |-> 0]} \cup {[explicit |-> TRUE, value |-> v] : v \in EnumValues}

\* the member lists of the generated enums
MemberLists == UNION {[1..n -> Members] : n \in 1..MaxMembers}

RECURSIVE MemberToks(_, _)
\* the members from the k-th on, separated by commas
MemberToks(ms, k) ==
    IF k > Len(ms) THEN <<>>
    ELSE <<IdTok(MemberName(k))>>
         \o (IF ms[k].explicit THEN <<T("Assign"), NumTok(ms[k].value)>> ELSE <<>>)
         \o (IF k < Len(ms) THEN <<T("Comma")>> ELSE <<>>) \o MemberToks(ms, k + 1)

\* enum { members };
EnumToks(ms) ==
    <<T("Enum"), T("LBrace")>> \o MemberToks(ms, 1) \o <<T("RBrace"), T("Semicolon")>>

\* enum { members };  int main() { return <the last member>; }
SrcEnum(ms) ==
    EnumToks(ms) \o FnToks("main", <<>>, ReturnToks(<<IdTok(MemberName(Len(ms)))>>), TRUE)

\* enum Color { R, G, B = 5, Y };  int main() { return Y; }
Colors ==
    <<[explicit |-> FALSE, value |-> 0], [explicit |-> FALSE, value |-> 0],
      [explicit |-> TRUE, value |-> 5], [explicit |-> FALSE, value |-> 0]>>

\* enum { K = 5 };  enum { R };  int main() { return R; }
SrcTwoEnums ==
    <<T("Enum"), T("LBrace"), IdTok("K"), T("Assign"), NumTok(5), T("RBrace"), T("Semicolon")>>
    \o SrcEnum(<<[explicit |-> FALSE, value |-> 0]>>)

EnumTexts == {SrcEnum(ms) : ms \in MemberLists} \cup {SrcTwoEnums}

\* the pointers of the sources built by SrcPointers and the type they point to
Pointee == [p |-> INT, s |-> CHAR]

\* int main() { int i; int *p; char *s; return e; }
SrcPointers(e) ==
    FnToks("main", <<>>,
           <<T("Int"), IdTok("i"), T("Semicolon"),
             T("Int"), T("Mul"), IdTok("p"), T("Semicolon"),
             T("Char"), T("Mul"), IdTok("s"), T("Semicolon")>>
           \o ReturnToks(e), TRUE)

\* ptr + i and i + ptr
PtrPlusInt(ptr) == <<IdTok(ptr), T("Add"), IdTok("i")>>
IntPlusPtr(ptr) == <<IdTok("i"), T("Add"), IdTok(ptr)>>

\* *ptr
DerefToks(ptr) == <<T("Mul"), IdTok(ptr)>>

PointerTexts ==
    {SrcPointers(PtrPlusInt(ptr)) : ptr \in DOMAIN Pointee}
    \cup {SrcPointers(IntPlusPtr(ptr)) : ptr \in DOMAIN Pointee}
    \cup {SrcPointers(DerefToks(ptr)) : ptr \in DOMAIN Pointee}

\* the tokens of the binary operators that have an opcode, in the order of the
\* opcodes OR .. MOD
BinaryToks ==
    <<"Or", "Xor", "And", "Eq", "Ne", "Lt", "Gt", "Le", "Ge", "Shl", "Shr",
      "Add", "Sub", "Mul", "Div", "Mod">>

\* int main() { return 2 op1 3 op2 4; }; for the i-th and the j-th operator
SrcOps(i, j) ==
    FnToks("main", <<>>,
           ReturnToks(<<NumTok(2), T(BinaryToks[i]), NumTok(3), T(BinaryToks[j]), NumTok(4)>>),
           TRUE)

\* the second operator binds as tightly as the first or tighter
OperatorTexts ==
    {SrcOps(ij[1], ij[2]) :
        ij \in {p \in (1..Len(BinaryToks)) \X (1..Len(BinaryToks)) :
                  Precedence(BinaryToks[p[2]]) >= Precedence(BinaryToks[p[1]])}}

\* the source texts given to the compiler
Texts ==
    Sources \cup {SrcString(TRUE)} \cup {SrcExpr(e) : e \in Exprs}
    \cup {SrcUse(use, e) : use \in Uses, e \in Exprs}
    \cup BranchTexts \cup RedeclaringTexts \cup NoMainTexts \cup MainAgainTexts
    \cup InitTexts \cup EnumTexts \cup PointerTexts \cup OperatorTexts \cup NotTexts

\* the Parser instances
Instances == 1..2

InitParse ==
    /\ \E text \in Texts, ptr \in [Instances -> HeapAddrs] :
          /\ source = text
          /\ parsers = [i \in Instances |-> NewParser(Lex(text, ptr[i]))]
    /\ stage = [i \in Instances |-> "new"]
    /\ lexer = <<>>
    /\ symbols = <<>>
    /\ name_map = <<>>
    /\ scope_level = 0
    /\ calls = <<>>
    /\ code = <<>>
    /\ data = <<>>
    /\ stack = <<>>
    /\ pc = 0
    /\ sp = 0
    /\ bp = 0
    /\ ax = 0
    /\ cycle = 0
    /\ entry_point = 0
    /\ status = "new"
    /\ retval = 0
    /\ build = "release"

\* instance i goes from stage `from` to stage `to` and becomes P
Advance(i, from, to, P) ==
    /\ stage[i] = from
    /\ parsers' = [parsers EXCEPT ![i] = P]
    /\ stage' = [stage EXCEPT ![i] = to]
    /\ UNCHANGED <<source, vmVars, symVars, lexVars>>

\* parser.init()
DoInit(i) == Advance(i, "new", "init", ParserInit(parsers[i]))

\* parser.parse()
DoParse(i) == Advance(i, "init", "parse", Parse(parsers[i]))

NextParse ==
    \/ \E i \in Instances : DoInit(i)
    \/ \E i \in Instances : DoParse(i)

SpecParse == InitParse /\ [][NextParse]_vars

\* instance i has returned Ok from parse
Accepted(i) == stage[i] = "parse" /\ Ok(parsers[i])

\* C15: compiling the same accepted source twice, with two independent Parser
\* instances, produces identical code and data segments, also for sources with
\* string and character literals.
C15_CompilationDeterministic ==
    Accepted(1) /\ Accepted(2) =>
        /\ parsers[1].code = parsers[2].code
        /\ parsers[1].data = parsers[2].data

\* the word before the LEV that closes main: the last word emitted by the
\* statement that ends main's body
LastWord(P) == P.code[Len(P.code) - 1]

\* C16: after the parser finishes an expression, the last word of the code vector
\* is LI or LC if and only if the expression is an lvalue (a variable, a
\* dereference or an index expression); for every rvalue expression it is
\* neither.
C16_LvalueConservation ==
    \A e \in Exprs :
        source = SrcExpr(e) /\ stage[1] = "parse" =>
            /\ Ok(parsers[1])
            /\ LastWord(parsers[1]) \in {LI, LC} <=> e.lvalue

\* the code of main up to the end of the expression e: all of the code of
\* `e;` but the closing LEV
CodeUpTo(e) ==
    SubSeq(Compile(SrcExpr(e)).code, 1, Len(Compile(SrcExpr(e)).code) - 1)

\* C17: an assignment, address-of, ++ or -- whose operand is not an lvalue is
\* rejected with a parse error and no store is emitted (the code ends with the
\* operand), for every non-lvalue operand: literals and enum constants of any
\* value, calls with any number of arguments.
C17_NonLvalueRejected ==
    \A use \in Uses, e \in Rvalues :
        source = SrcUse(use, e) /\ stage[1] = "parse" =>
            /\ ~Ok(parsers[1])
            /\ parsers[1].code = CodeUpTo(e)

----------------------------------------------------------------------------
(* The branches of the generated code *)

\* the opcodes that emit and run hold together with one operand word
WithOperand == {LEA, IMM, JMP, JSR, BZ, BNZ, ENT, ADJ}

RECURSIVE Branches(_, _)
\* the indices from i on at which the instructions of c have a JMP, JSR, BZ or BNZ
Branches(c, i) ==
    IF i >= Len(c) THEN {}
    ELSE (IF c[i + 1] \in {JMP, JSR, BZ, BNZ} THEN {i} ELSE {})
         \cup Branches(c, IF c[i + 1] \in WithOperand THEN i + 2 ELSE i + 1)

\* the entry addresses recorded for the functions P has defined
Entries(P) ==
    {P.symbols.symbols[k].value :
        k \in {j \in 1..Len(P.symbols.symbols) : P.symbols.symbols[j].class = "Fun"}}

\* the branch at index i of P's code has its operand inside the code; a BZ or BNZ
\* has been patched to an index beyond itself; a JSR calls a defined function
Closed(P, i) ==
    /\ i + 1 < Len(P.code)
    /\ P.code[i + 2] \in 0..(Len(P.code) - 1)
    /\ P.code[i + 1] \in {BZ, BNZ} => P.code[i + 2] > i + 1
    /\ P.code[i + 1] = JSR => P.code[i + 2] \in Entries(P)

----------------------------------------------------------------------------
(* The frame slots of locals *)

\* ... int main() { int x; int y; int *p; char c; <the j-th local>; }
SrcLocal(j) == SrcExpr(Expr(<<IdTok(MainLocals[j])>>, TRUE))

\* C19: in a compiled function with n declared locals the j-th declared local
\* has frame slot -j and the ENT operand is n: main of SrcLocal(j), with its four
\* locals, starts with ENT 4 and loads its j-th local with LEA -j.
C19_LocalsInNegativeSlots ==
    \A i \in Instances, j \in 1..Len(MainLocals) :
        source = SrcLocal(j) /\ stage[i] = "parse" =>
            /\ Ok(parsers[i])
            /\ SubSeq(parsers[i].code, 1, 4) = <<ENT, Len(MainLocals), LEA, 0 - j>>

----------------------------------------------------------------------------
(* The built-in functions *)

\* the nine entries of init_symbols' table that are built-in functions
Syscalls == {k \in 1..Len(LibFuncs) : LibFuncs[k][2] = "Sys"}

\* get(name) of built-in number k returns a Sys symbol with the syscall's opcode
Builtin(table, k) ==
    /\ SymExists(table, LibFuncs[k][1])
    /\ SymGet(table, LibFuncs[k][1]).class = "Sys"
    /\ SymGet(table, LibFuncs[k][1]).value = LibFuncs[k][3]

\* C20: after init, at every point of a parse, whatever the source declares and
\* after every scope exit, get(name) returns for each of the nine built-in
\* names a Sys symbol whose value is the opcode of the syscall.
C20_BuiltinsKept ==
    \A i \in Instances :
        stage[i] \in {"init", "parse"} =>
            \A k \in Syscalls : Builtin(parsers[i].symbols, k)

----------------------------------------------------------------------------
(* The entry point *)

\* get("main") of P is a Fun symbol whose value is the index of an ENT in P's code
MainIsEntry(P) ==
    /\ SymExists(P.symbols, "main")
    /\ GetMain(P.symbols).class = "Fun"
    /\ GetMain(P.symbols).value \in 0..(Len(P.code) - 1)
    /\ P.code[GetMain(P.symbols).value + 1] = ENT

----------------------------------------------------------------------------
(* String literals and global initializers *)

\* C22: a string literal in an expression appends its bytes and one NUL byte to
\* the data segment and emits IMM with the offset at which they start, and the
\* expression has type pointer to char: `int main() { return "hi"; }` compiles
\* to ENT 0; IMM 0; LEV; LEV with the data 'h', 'i', NUL.
C22_StringInData ==
    \A i \in Instances :
        source = SrcString(TRUE) /\ stage[i] = "parse" =>
            /\ Ok(parsers[i])
            /\ parsers[i].data = Append(AsBytes("hi"), 0)
            /\ parsers[i].code = <<ENT, 0, IMM, 0, LEV, LEV>>
            /\ parsers[i].expr_type = ToPtr(CHAR)

\* the 8 bytes of the word v >= 0, least significant byte first
RECURSIVE LittleEndian(_, _)
LittleEndian(v, n) == IF n = 0 THEN <<>> ELSE <<v % 256>> \o LittleEndian(v \div 256, n - 1)

\* C23: a global declaration with a numeric initializer, `int x = v;`, is
\* accepted, and the value is stored little-endian in the 8 bytes reserved for
\* the variable at its data-segment offset.
C23_GlobalInitializer ==
    \A i \in Instances, v \in Literals :
        source = SrcGlobalInit(v) /\ stage[i] = "parse" =>
            /\ Ok(parsers[i])
            /\ SymExists(parsers[i].symbols, "x")
            /\ SymGet(parsers[i].symbols, "x").class = "Glo"
            /\ SubSeq(parsers[i].data, SymGet(parsers[i].symbols, "x").value + 1,
                      SymGet(parsers[i].symbols, "x").value + TypeSize(INT))
                  = LittleEndian(v, TypeSize(INT))

----------------------------------------------------------------------------
(* Enumerations *)

RECURSIVE Counter(_, _)
\* the value of the k-th member of ms: its explicit value, or 0 for the first
\* member, or one more than the member before it
Counter(ms, k) ==
    IF ms[k].explicit THEN ms[k].value
    ELSE IF k = 1 THEN 0 ELSE Counter(ms, k - 1) + 1

\* get(name) in P is a Num symbol of type int with value v
IsConstant(P, name, v) ==
    /\ SymExists(P.symbols, name)
    /\ SymGet(P.symbols, name) = NewSymbol(name, "Num", INT, v)

\* C24: each member of an enum is added as a Num symbol whose value is the
\* running counter, which starts at 0 for every enum, is reset to the explicit
\* value when `= NUM` follows the member's name, and increases by 1 after every
\* member; a use of the member loads that value with IMM.
C24_EnumCounter ==
    \A i \in Instances :
        /\ \A ms \in MemberLists :
              source = SrcEnum(ms) /\ stage[i] = "parse" =>
                  /\ Ok(parsers[i])
                  /\ \A k \in 1..Len(ms) : IsConstant(parsers[i], MemberName(k), Counter(ms, k))
                  /\ parsers[i].code = <<ENT, 0, IMM, Counter(ms, Len(ms)), LEV, LEV>>
        /\ source = SrcTwoEnums /\ stage[i] = "parse" =>
              Ok(parsers[i]) /\ IsConstant(parsers[i], "K", 5) /\ IsConstant(parsers[i], "R", 0)

\* enum { R, G, B = 5, Y } has been compiled: R = 0, G = 1, B = 5, Y = 6, and
\* main returns Y with IMM 6
C24_Witness ==
    /\ source = SrcEnum(Colors)
    /\ Accepted(1)
    /\ IsConstant(parsers[1], "R", 0) /\ IsConstant(parsers[1], "G", 1)
    /\ IsConstant(parsers[1], "B", 5) /\ IsConstant(parsers[1], "Y", 6)
    /\ parsers[1].code = <<ENT, 0, IMM, 6, LEV, LEV>>

----------------------------------------------------------------------------
(* Pointers *)

\* the code c multiplies an operand by the word size: PSH; IMM 8; MUL
Scales(c) == \E k \in 1..(Len(c) - 3) : SubSeq(c, k, k + 3) = <<PSH, IMM, TypeSize(INT), MUL>>

\* C25: in p + i and i + p, p a pointer and i an integer, the integer operand is
\* multiplied by the word size (PSH; IMM 8; MUL) before the ADD exactly when p
\* does not point to char, whichever side the pointer is written on.
C25_PointerScaling ==
    \A j \in Instances, ptr \in DOMAIN Pointee :
        /\ source = SrcPointers(PtrPlusInt(ptr)) /\ stage[j] = "parse" =>
              Ok(parsers[j]) /\ (Scales(parsers[j].code) <=> Pointee[ptr] # CHAR)
        /\ source = SrcPointers(IntPlusPtr(ptr)) /\ stage[j] = "parse" =>
              Ok(parsers[j]) /\ (Scales(parsers[j].code) <=> Pointee[ptr] # CHAR)

\* the load that ends the expression of `return e;` at the end of main: the
\* word before the LEV of the return and the LEV that closes the function
ReturnedLoad(P) == P.code[Len(P.code) - 2]

\* C26: dereferencing an expression of type pointer to T yields an expression of
\* type T and emits LC when T is char and LI otherwise: `*p` of an `int *p`
\* loads a word and has type int, `*s` of a `char *s` loads a byte and has type
\* char.
C26_DerefInvertsPointer ==
    \A j \in Instances, ptr \in DOMAIN Pointee :
        source = SrcPointers(DerefToks(ptr)) /\ stage[j] = "parse" =>
            /\ Ok(parsers[j])
            /\ parsers[j].expr_type = Pointee[ptr]
            /\ ReturnedLoad(parsers[j]) = Load(Pointee[ptr])

----------------------------------------------------------------------------
(* The lexer's numeric literals, lexer.rs.  A source is a sequence of        *)
(* characters and a lexer the record [source, position, out]: out holds what *)
(* the calls of next_token have returned so far, tokens and errors.  The     *)
(* largest i64 is modelled by I64Max = 2^30 - 1 instead of 2^63 - 1.         *)

\* the digits of radix 16 in their order, in lower and in upper case
HexLower == <<"0", "1", "2", "3", "4", "5", "6", "7", "8", "9", "a", "b", "c", "d", "e", "f">>
HexUpper == <<"0", "1", "2", "3", "4", "5", "6", "7", "8", "9", "A", "B", "C", "D", "E", "F">>

\* char::is_digit(radix)
IsDigit(ch, radix) == \E d \in 1..radix : ch \in {HexLower[d], HexUpper[d]}

\* char::to_digit(radix) of a digit
ToDigit(ch) == CHOOSE d \in 0..15 : ch \in {HexLower[d + 1], HexUpper[d + 1]}

\* char::is_whitespace
IsWhitespace(ch) == ch \in {" ", "\n", "\t"}

\* Lexer::new
NewLexer(chars) == [source |-> chars, position |-> 0, out |-> <<>>]

\* Lexer::current_char
CurrentChar(L) == IF L.position < Len(L.source) THEN L.source[L.position + 1] ELSE None

\* Lexer::advance
AdvanceChar(L) == [L EXCEPT !.position = L.position + 1]

RECURSIVE SkipWhitespace(_), Scan(_, _), Accumulate(_, _, _)

\* Lexer::skip_whitespace
SkipWhitespace(L) ==
    IF IsWhitespace(CurrentChar(L)) THEN SkipWhitespace(AdvanceChar(L)) ELSE L

\* read_number's loops: advance while the current character is a digit of radix
Scan(L, radix) == IF IsDigit(CurrentChar(L), radix) THEN Scan(AdvanceChar(L), radix) ELSE L

\* &self.source[from..to]
Slice(L, from, to) == SubSeq(L.source, from + 1, to)

\* i64::from_str_radix from the digit str on, acc the value of the digits before
\* it: each step is a checked multiplication and a checked addition
Accumulate(str, radix, acc) ==
    IF str = <<>> THEN [ok |-> TRUE, value |-> acc]
    ELSE IF acc > (I64Max - ToDigit(Head(str))) \div radix THEN [ok |-> FALSE, value |-> 0]
    ELSE Accumulate(Tail(str), radix, acc * radix + ToDigit(Head(str)))

\* i64::from_str_radix of a string of digits: Err for the empty string and on overflow
FromStrRadix(str, radix) ==
    IF str = <<>> THEN [ok |-> FALSE, value |-> 0] ELSE Accumulate(str, radix, 0)

\* Err(CompilerError::LexerError { message, .. })
LexerError(message) == Token("Err", 0, message)

\* next_token returns result
Return(L, result) == [L EXCEPT !.out = Append(L.out, result)]

\* the Num token of from_str_radix(str, radix), or its map_err(message)
Number(L, str, radix, message) ==
    IF FromStrRadix(str, radix).ok
    THEN Return(L, NumTok(FromStrRadix(str, radix).value))
    ELSE Return(L, LexerError(message))

\* read_number after 0x or 0X
ReadHex(L) ==
    IF Slice(L, L.position, Scan(L, 16).position) = <<>>
    THEN Return(Scan(L, 16), LexerError("Invalid hexadecimal number"))
    ELSE Number(Scan(L, 16), Slice(L, L.position, Scan(L, 16).position), 16,
                "Invalid hexadecimal number")

\* an octal literal whose digits are read in radix 10
ReadOctal_AsDecimal(L) ==
    Number(Scan(L, 8), Slice(L, L.position - 1, Scan(L, 8).position), 10,
           "Invalid octal number")

\* read_number after a leading 0 that an octal digit follows: the string
\* includes the leading 0
ReadOctal(L) ==
    Number(Scan(L, 8), Slice(L, L.position - 1, Scan(L, 8).position), 8,
           "Invalid octal number")

\* read_number on a literal that does not start with 0
ReadDecimal(L) ==
    Number(Scan(L, 10), Slice(L, L.position, Scan(L, 10).position), 10,
           "Invalid decimal number")

\* read_number after the leading 0
AfterZero(L) ==
    IF CurrentChar(L) \in {"x", "X"} THEN ReadHex(AdvanceChar(L))
    ELSE IF IsDigit(CurrentChar(L), 8) THEN ReadOctal(L)
    ELSE Return(L, NumTok(0))

\* Lexer::read_number
ReadNumber(L) == IF CurrentChar(L) = "0" THEN AfterZero(AdvanceChar(L)) ELSE ReadDecimal(L)

\* the literals of tests/lexer_tests.rs test_numeric_literals: 123 0 0x1A 077
TestLiterals == {<<"1", "2", "3">>, <<"0">>, <<"0", "x", "1", "A">>, <<"0", "7", "7">>}

\* decimal literals of one and two digits
DecimalLiterals ==
    {<<a>> : a \in {"1", "7", "9"}} \cup {<<a, b>> : a \in {"1", "9"}, b \in {"0", "8", "9"}}

\* octal literals: 0 and one or two octal digits
OctalLiterals ==
    {<<"0", a>> : a \in {"0", "1", "7"}} \cup {<<"0", a, b>> : a \in {"1", "7"}, b \in {"0", "7"}}

\* hexadecimal literals: 0x or 0X and one or two hexadecimal digits
HexLiterals ==
    {<<"0", x, a>> : x \in {"x", "X"}, a \in {"0", "9", "a", "F"}}
    \cup {<<"0", x, a, b>> : x \in {"x", "X"}, a \in {"1", "f"}, b \in {"0", "A"}}

\* I64Max and I64Max + 1 in the three notations
LargeLiterals ==
    {<<"1", "0", "7", "3", "7", "4", "1", "8", "2", "3">>,
     <<"1", "0", "7", "3", "7", "4", "1", "8", "2", "4">>,
     <<"0", "7", "7", "7", "7", "7", "7", "7", "7", "7", "7">>,
     <<"0", "1", "0", "0", "0", "0", "0", "0", "0", "0", "0", "0">>,
     <<"0", "x", "3", "f", "f", "f", "f", "f", "f", "f">>,
     <<"0", "X", "4", "0", "0", "0", "0", "0", "0", "0">>}

NumLiterals ==
    TestLiterals \cup DecimalLiterals \cup OctalLiterals \cup HexLiterals \cup LargeLiterals

\* what follows the literal in the source: nothing, a semicolon, a blank and 7
Tails == {<<>>, <<";">>, <<" ", "7">>}

\* the most calls of next_token that are followed
MaxTokens == 3

InitLex ==
    /\ \E lit \in NumLiterals, tail \in Tails : lexer = NewLexer(lit \o tail)
    /\ source = <<>>
    /\ parsers = <<>>
    /\ stage = <<>>
    /\ symbols = <<>>
    /\ name_map = <<>>
    /\ scope_level = 0
    /\ calls = <<>>
    /\ code = <<>>
    /\ data = <<>>
    /\ stack = <<>>
    /\ pc = 0
    /\ sp = 0
    /\ bp = 0
    /\ ax = 0
    /\ cycle = 0
    /\ entry_point = 0
    /\ status = "new"
    /\ retval = 0
    /\ build = "release"

\* a call of next_token that finds L after skipping the whitespace and returns as R
NextTokenCall(L, R) ==
    /\ Len(lexer.out) < MaxTokens
    /\ L = SkipWhitespace(lexer)
    /\ lexer' = R
    /\ UNCHANGED <<vmVars, symVars, parVars>>

\* next_token at the end of the source
LexEof ==
    \E L \in {SkipWhitespace(lexer)} :
        L.position >= Len(L.source) /\ NextTokenCall(L, Return(L, T("Eof")))

\* next_token at a digit
LexNumber ==
    \E L \in {SkipWhitespace(lexer)} :
        IsDigit(CurrentChar(L), 10) /\ NextTokenCall(L, ReadNumber(L))

\* next_token at a semicolon
LexSemicolon ==
    \E L \in {SkipWhitespace(lexer)} :
        CurrentChar(L) = ";" /\ NextTokenCall(L, Return(AdvanceChar(L), T("Semicolon")))

NextLex ==
    \/ LexEof
    \/ LexNumber
    \/ LexSemicolon

SpecLex == InitLex /\ [][NextLex]_vars

\* the digits of a literal and their radix, by the literal's prefix
IsHex(lit) == Len(lit) > 2 /\ lit[2] \in {"x", "X"}
IsOctal(lit) == Len(lit) > 1 /\ lit[1] = "0" /\ ~IsHex(lit)
Radix(lit) == IF IsHex(lit) THEN 16 ELSE IF IsOctal(lit) THEN 8 ELSE 10
DigitsOf(lit) == IF IsHex(lit) THEN SubSeq(lit, 3, Len(lit)) ELSE lit

RECURSIVE Positional(_, _)
\* the number the digits ds denote in the radix
Positional(ds, radix) ==
    IF ds = <<>> THEN 0
    ELSE radix * Positional(SubSeq(ds, 1, Len(ds) - 1), radix) + ToDigit(ds[Len(ds)])

\* the mathematical value of a literal
ValueOf(lit) == Positional(DigitsOf(lit), Radix(lit))

\* C27: for every decimal, octal and hexadecimal literal whose value fits the
\* signed word, next_token returns a Num token whose value is the literal's
\* mathematical value (and the literal is consumed: the semicolon after it is
\* the next token); a literal whose value does not fit makes next_token fail
\* with a lexer error.
C27_LiteralValue ==
    \A lit \in NumLiterals, tail \in Tails :
        lexer.source = lit \o tail /\ Len(lexer.out) >= 1 =>
            /\ ValueOf(lit) <= I64Max => lexer.out[1] = NumTok(ValueOf(lit))
            /\ ValueOf(lit) > I64Max => lexer.out[1].type = "Err"
            /\ Len(lexer.out) >= 2 /\ tail = <<";">> => lexer.out[2] = T("Semicolon")

\* 0x1A; has been read as the number 26 and a semicolon
C27_Witness ==
    /\ lexer # <<>>
    /\ lexer.source = <<"0", "x", "1", "A", ";">>
    /\ lexer.out = <<NumTok(26), T("Semicolon")>>

----------------------------------------------------------------------------
(* The binary instructions *)

\* C28: a binary opcode executed with a non-empty stack and, for DIV and MOD, a
\* nonzero AX sets AX to stack[SP] op AX, the stack top being the left operand
\* (a comparison yields 1 or 0), increases SP by 1, advances PC by 1 and
\* changes no stack slot.
C28_BinaryStep ==
    [][\A op \in BinaryOps :
          /\ At(op) /\ cycle' # cycle
          /\ sp < Len(stack)
          /\ op \in {DIV, MOD} => ax # 0
          => /\ status' = "running"
             /\ ax' = BinOp(op, stack[sp + 1], ax)
             /\ sp' = sp + 1
             /\ pc' = pc + 1
             /\ stack' = stack]_vars

----------------------------------------------------------------------------
(* The system calls *)

\* C29: run returns Ok only by executing EXIT: every other instruction, MCMP on
\* two buffers that differ included, goes on with the next instruction or
\* returns a VM error.
C29_OnlyExitReturns ==
    [][status = "running" /\ status' = "ok" => At(EXIT)]_vars

\* the index after the ADJ of the call in main of SrcSyscall(k): ENT 0, three
\* words per argument, the opcode, ADJ and its operand
AfterCall(k) == 3 * Arity[k] + 5

\* C30: for a compiled call of a built-in with n arguments (n times expression
\* and PSH, the syscall opcode, ADJ n), SP after the ADJ equals SP before the
\* first argument was pushed, which in main of SrcSyscall(k) is SP after ENT 0.
C30_ArgumentsPoppedOnce ==
    \A k \in 1..Len(Arity) :
        RunOf(SrcSyscall(k)) /\ status = "running" /\ pc = AfterCall(k) => sp = MainFrame

----------------------------------------------------------------------------
(* The width of the instructions *)

RECURSIVE OperandWords(_, _)
\* the indices from i on that hold the operand of an instruction of c, as the
\* parser emitted them: one word after each opcode of WithOperand
OperandWords(c, i) ==
    IF i >= Len(c) THEN {}
    ELSE IF c[i + 1] \in WithOperand THEN {i + 1} \cup OperandWords(c, i + 2)
    ELSE OperandWords(c, i + 1)

\* C31: while the VM executes parser-emitted code, PC indexes an opcode word
\* and never an operand word, across a compiled printf call included.
C31_PcAtOpcode ==
    \A src \in Sources :
        RunOf(src) /\ status = "running" => pc \notin OperandWords(code, 0)

----------------------------------------------------------------------------
(* Precedence and associativity *)

\* the ten words main's code holds after ENT 0
Emitted(P) == SubSeq(P.code, 3, 12)

\* C32: in `2 op1 3 op2 4` with op2 of higher precedence the opcode of op2 is
\* emitted before that of op1 (2 + 3 * 4 emits IMM 2, PSH, IMM 3, PSH, IMM 4,
\* MUL, ADD); with op1 and op2 of equal precedence the opcode of op1 is emitted
\* before the code of the operand 4.
C32_PrecedenceAndAssociativity ==
    \A i, j \in 1..Len(BinaryToks) :
        source = SrcOps(i, j) /\ stage[1] = "parse" =>
            /\ Ok(parsers[1])
            /\ Precedence(BinaryToks[j]) > Precedence(BinaryToks[i]) =>
                  Emitted(parsers[1])
                      = <<IMM, 2, PSH, IMM, 3, PSH, IMM, 4, OR + j - 1, OR + i - 1>>
            /\ Precedence(BinaryToks[j]) = Precedence(BinaryToks[i]) =>
                  Emitted(parsers[1])
                      = <<IMM, 2, PSH, IMM, 3, OR + i - 1, PSH, IMM, 4, OR + j - 1>>

\* 2 + 3 * 4 and 2 - 3 + 4 have been compiled
C32_Witness ==
    /\ Accepted(1)
    /\ \/ /\ source = SrcOps(12, 14)
          /\ Emitted(parsers[1]) = <<IMM, 2, PSH, IMM, 3, PSH, IMM, 4, MUL, ADD>>
       \/ /\ source = SrcOps(13, 12)
          /\ Emitted(parsers[1]) = <<IMM, 2, PSH, IMM, 3, SUB, PSH, IMM, 4, ADD>>

----------------------------------------------------------------------------
(* The while loop *)

\* the index of the only instruction op of c
TheOnly(c, op) == CHOOSE i \in Branches(c, 0) : c[i + 1] = op

\* the machine runs main of a SrcWhile(n)
InWhile == \E n \in Counts : RunOf(SrcWhile(n))

\* the indices of the loop's BZ and JMP, and of the first instruction of the
\* condition g (IMM 0; LI), three words before the BZ
WhileBZ == TheOnly(code, BZ)
WhileJMP == TheOnly(code, JMP)
Ltop == WhileBZ - 3

\* one iteration of run's loop in main of SrcWhile(n): the BZ goes on with the
\* body when AX is nonzero and past the JMP when AX is 0, the JMP goes back to
\* the condition, and the body and the code after the loop are entered in no
\* other way
WhileStep ==
    InWhile /\ status = "running" /\ cycle' # cycle =>
        /\ pc = WhileBZ =>
              status' = "running" /\ pc' = (IF ax # 0 THEN WhileBZ + 2 ELSE WhileJMP + 2)
        /\ pc = WhileJMP => status' = "running" /\ pc' = Ltop
        /\ status' = "running" /\ pc' = WhileBZ + 2 => pc = WhileBZ /\ ax # 0
        /\ status' = "running" /\ pc' = WhileJMP + 2 => pc = WhileBZ /\ ax = 0

\* C33: for `while (e) s` the JMP operand is the index of the first instruction
\* of e and the BZ operand is the index just past the JMP operand, so the VM
\* evaluates e before every iteration, runs s only when e is nonzero, and
\* continues after the loop exactly when e evaluates to 0.
C33_WhileLoop ==
    /\ [](InWhile =>
            /\ CodeAt(WhileJMP + 1) = Ltop
            /\ CodeAt(WhileBZ + 1) = WhileJMP + 2
            /\ status = "running" /\ pc = WhileBZ => ax = stack[1])
    /\ [][WhileStep]_vars

\* the loop of SrcWhile(2) is left after its body has run twice
C33_Witness ==
    /\ RunOf(SrcWhile(2))
    /\ status = "running"
    /\ pc = WhileJMP + 2
    /\ stack[1] = 0
    /\ cycle = 32

----------------------------------------------------------------------------
(* Short-circuit evaluation *)

\* the machine runs main of `return a && b` (tok Lan) or `return a || b` (tok
\* Lor), with a the value that decides the result
Decided(tok, a) == \E b \in Truth : RunOf(SrcLogical(tok, a, b))

\* the index of the branch of the operator: the operand b (IMM b) is the
\* instruction after it, at Branch + 2, and the code after b is at Branch + 4
Branch == CHOOSE i \in Branches(code, 0) : code[i + 1] \in {BZ, BNZ}

\* C34: when the code of `a && b` runs and a is 0, no instruction of b executes
\* and AX is 0 afterwards; when the code of `a || b` runs and a is nonzero, no
\* instruction of b executes and AX is nonzero afterwards.
C34_ShortCircuit ==
    /\ [](\A a \in Truth :
            (a = 0 /\ Decided("Lan", a)) \/ (a # 0 /\ Decided("Lor", a)) =>
                ~(status = "running" /\ pc = Branch + 2))
    /\ [][\A a \in Truth :
            /\ (a = 0 /\ Decided("Lan", a)) \/ (a # 0 /\ Decided("Lor", a))
            /\ status = "running" /\ pc = Branch /\ cycle' # cycle
            => /\ status' = "running"
               /\ pc' = Branch + 4
               /\ ax' = a]_vars

\* 0 && 7 has been evaluated: the machine is past the operand 7 with AX = 0
C34_Witness ==
    /\ RunOf(SrcLogical("Lan", 0, 7))
    /\ status = "running"
    /\ pc = Branch + 4
    /\ ax = 0

----------------------------------------------------------------------------
(* Increment and decrement *)

\* main of SrcIncDec: ENT 0, the four instructions of g = v, the expression,
\* and the LEV of the return two words before the end
ExprStart == Len(<<ENT, 0, IMM, 0, PSH, IMM, 7, SI>>)
ExprEnd == Len(code) - 2

\* C35: the code of g++ (g--) on the int g leaves the old value of g in AX,
\* stores old + 1 (old - 1) in g and leaves SP as it was before the expression;
\* ++g and --g store the same new value and leave the new value in AX.
C35_IncDec ==
    \A form \in DOMAIN Forms, v \in Words :
        RunOf(SrcIncDec(form, v)) /\ status = "running" =>
            /\ pc = ExprStart => sp = MainFrame /\ stack[1] = v
            /\ pc = ExprEnd =>
                  /\ sp = MainFrame
                  /\ stack[1] = v + Forms[form].by
                  /\ ax = (IF Forms[form].old THEN v ELSE v + Forms[form].by)

\* g++ and --g have been evaluated from g = 7
C35_Witness ==
    /\ status = "running"
    /\ pc = ExprEnd
    /\ \/ RunOf(SrcIncDec("PostInc", 7)) /\ ax = 7 /\ stack[1] = 8
       \/ RunOf(SrcIncDec("PreDec", 7)) /\ ax = 6 /\ stack[1] = 6

----------------------------------------------------------------------------
(* Logical and bitwise not *)

\* C36: `!e` compiles to e; PSH; IMM 0; EQ and `~e` to e; PSH; IMM -1; XOR: for
\* `return !v;` and `return ~v;` main's code holds these words after ENT 0.
C36_NotOperators ==
    \A v \in {0, 7} :
        /\ source = SrcNot("!", v) /\ stage[1] = "parse" =>
              /\ Ok(parsers[1])
              /\ SubSeq(parsers[1].code, 3, 8) = <<IMM, v, PSH, IMM, 0, EQ>>
        /\ source = SrcNot("~", v) /\ stage[1] = "parse" =>
              /\ Ok(parsers[1])
              /\ SubSeq(parsers[1].code, 3, 8) = <<IMM, v, PSH, IMM, -1, XOR>>

----------------------------------------------------------------------------
(* Allocation *)

\* n zero bytes
Zeros(n) == [i \in 1..n |-> 0]

\* MALC is about to run with the size on top of the stack, and the segment it
\* asks for fits the memory of the machine
Allocates(size) ==
    /\ At(MALC)
    /\ sp < Len(stack)
    /\ stack[sp + 1] = size
    /\ Len(data) + size <= MaxAlloc

\* both allocations of MallocProg(s1, s2), run from its start, have returned
TwoAllocated(s1, s2) ==
    /\ code = MallocProg(s1, s2)
    /\ entry_point = 0
    /\ status = "running"
    /\ pc = Len(code) - 2

\* C37: MALC(size) with size >= 0 returns the length of the data segment at the
\* time of the call and extends the segment by size zero bytes; the regions of
\* successive calls overlap neither each other nor the bytes the segment held
\* before.
C37_MallocFresh ==
    /\ [][\A size \in 0..MaxAlloc :
            Allocates(size) /\ cycle' # cycle =>
                /\ status' = "running"
                /\ ax' = Len(data)
                /\ data' = data \o Zeros(size)]_vars
    /\ [][Len(data') >= Len(data)]_vars
    /\ [](\A s1, s2 \in Sizes :
            TwoAllocated(s1, s2) =>
                /\ stack[sp + 1] >= Len(SyscallData)
                /\ ax >= stack[sp + 1] + s1
                /\ Len(data) >= ax + s2
                /\ SubSeq(data, 1, Len(SyscallData)) = SyscallData)

\* two regions of 2 and 3 bytes have been allocated after the three bytes the
\* segment held
C37_Witness ==
    /\ TwoAllocated(2, 3)
    /\ stack[sp + 1] = 3
    /\ ax = 5
    /\ data = SyscallData \o Zeros(5)

----------------------------------------------------------------------------
(* Division *)

\* C38: for every pair of signed words with a nonzero divisor in AX, DIV and
\* MOD complete with a result in AX: run neither aborts nor returns an error,
\* the most negative word divided by -1 included.
C38_DivisionCompletes ==
    [][\A op \in {DIV, MOD} :
          At(op) /\ cycle' # cycle /\ sp < Len(stack) /\ ax # 0 =>
              /\ status' = "running"
              /\ ax' \in I64Min..I64Max]_vars

----------------------------------------------------------------------------
(* The shadow fields of a symbol, symbol.rs.  symbols holds the one Symbol the *)
(* calls act on; calls records each call with the class, type and value the    *)
(* symbol has after it.                                                         *)

\* Symbol::save_state
SaveState(s) ==
    [s EXCEPT !.h_class = Some(s.class), !.h_type = Some(s.typ), !.h_value = Some(s.value)]

\* restore_state that leaves the type as it is
RestoreState_KeepsType(s) ==
    [s EXCEPT !.class = IF s.h_class # Unset THEN s.h_class[1] ELSE s.class,
              !.value = IF s.h_value # Unset THEN s.h_value[1] ELSE s.value,
              !.h_class = Unset, !.h_type = Unset, !.h_value = Unset]

\* Symbol::restore_state
RestoreState(s) ==
    [s EXCEPT !.class = IF s.h_class # Unset THEN s.h_class[1] ELSE s.class,
              !.typ = IF s.h_type # Unset THEN s.h_type[1] ELSE s.typ,
              !.value = IF s.h_value # Unset THEN s.h_value[1] ELSE s.value,
              !.h_class = Unset, !.h_type = Unset, !.h_value = Unset]

\* the classes, types and values given to the fields of the symbol
Classes == {"Glo", "Loc"}
Types == {CHAR, INT}
Values == {10, 20}

\* the most calls and assignments made on the symbol
MaxOps == 3

InitSymbol ==
    /\ \E class \in Classes, typ \in Types, value \in Values :
          /\ symbols = <<NewSymbol("x", class, typ, value)>>
          /\ calls = <<Call("new", "x", class, typ, value)>>
    /\ name_map = <<>>
    /\ scope_level = 0
    /\ lexer = <<>>
    /\ source = <<>>
    /\ parsers = <<>>
    /\ stage = <<>>
    /\ code = <<>>
    /\ data = <<>>
    /\ stack = <<>>
    /\ pc = 0
    /\ sp = 0
    /\ bp = 0
    /\ ax = 0
    /\ cycle = 0
    /\ entry_point = 0
    /\ status = "new"
    /\ retval = 0
    /\ build = "release"

\* the symbol becomes s by the call or assignment op
Becomes(op, s) ==
    /\ Len(calls) <= MaxOps
    /\ symbols' = <<s>>
    /\ calls' = Append(calls, Call(op, s.name, s.class, s.typ, s.value))
    /\ UNCHANGED <<name_map, scope_level, vmVars, parVars, lexVars>>

\* symbol.save_state()
DoSave == Becomes("save", SaveState(symbols[1]))

\* symbol.restore_state()
DoRestore == Becomes("restore", RestoreState(symbols[1]))

\* symbol.class = class; symbol.typ = typ; symbol.value = value
DoAssign ==
    \E class \in Classes, typ \in Types, value \in Values :
        Becomes("assign", [symbols[1] EXCEPT !.class = class, !.typ = typ, !.value = value])

NextSymbol ==
    \/ DoSave
    \/ DoRestore
    \/ DoAssign

SpecSymbol == InitSymbol /\ [][NextSymbol]_vars

\* the class, type and value recorded by a call
Fields(c) == <<c.class, c.typ, c.value>>

\* the calls of save_state before call k that no restore_state has followed
PendingSaves(k) ==
    {j \in 1..(k - 1) :
        /\ calls[j].op = "save"
        /\ \A i \in (j + 1)..(k - 1) : calls[i].op # "restore"}

\* the call whose fields the restore_state at k has to give back: the last
\* pending save_state, or the call before k when there is none
Origin(k) ==
    IF PendingSaves(k) = {} THEN k - 1
    ELSE CHOOSE j \in PendingSaves(k) : \A i \in PendingSaves(k) : i <= j

\* C39: save_state, any changes of class, type and value, then restore_state
\* gives the three fields the values they had at save_state and clears the
\* shadow triple; restore_state without a preceding save_state changes no field.
C39_SaveRestore ==
    /\ \A k \in 2..Len(calls) :
          calls[k].op = "restore" => Fields(calls[k]) = Fields(calls[Origin(k)])
    /\ calls[Len(calls)].op = "restore" =>
          /\ symbols[1].h_class = Unset
          /\ symbols[1].h_type = Unset
          /\ symbols[1].h_value = Unset

\* the test's symbol after save_state, a change of all three fields and
\* restore_state
C39_Witness ==
    /\ Len(calls) = 4
    /\ calls[1] = Call("new", "x", "Glo", INT, 10)
    /\ calls[2].op = "save"
    /\ calls[3] = Call("assign", "x", "Loc", CHAR, 20)
    /\ calls[4].op = "restore"
    /\ symbols[1] = NewSymbol("x", "Glo", INT, 10)

====
